---- MODULE Spec2Model ----
(***************************************************************************)
(* School-Hub: the REST handlers of server/routes.ts (and its earlier      *)
(* revision, src/unnamed/part_007) over the Mongoose store of              *)
(* server/storage.ts (kept in src/shared/schema.ts).                       *)
(*                                                                         *)
(* A request is a process: it is received, runs the handler's code up to   *)
(* the next awaited store call, and every store call is one atomic step of *)
(* the store.  Requests in flight interleave at those steps.               *)
(***************************************************************************)
EXTENDS Integers, Sequences, FiniteSets, TLC

\* ---------------------------------------------------------------- bounds
\* Requests a behaviour handles (all may be in flight at once).
MaxReqs == 3

ReqIds == 1..MaxReqs

\* Bulk attendance requests a behaviour handles, and the records of one.
MaxBulkReqs == 2
MaxRecords == 2

BulkReqIds == 1..MaxBulkReqs

\* Requests a behaviour of the account routes handles.
MaxAccountReqs == 2

AccountReqIds == 1..MaxAccountReqs

\* Requests a behaviour of the authenticated routes handles, and the days
\* that pass in it.
MaxAccessReqs == 2
MaxDay == 8

AccessReqIds == 1..MaxAccessReqs

\* Requests a behaviour of the fee routes handles, and the days that pass
\* in it.
MaxFeeReqs == 2
MaxFeeDays == 2

FeeReqIds == 1..MaxFeeReqs

\* Requests a behaviour of the payroll routes handles; days its clock
\* runs over.
MaxPayrollReqs == 2
MaxPayrollDays == 1

PayrollReqIds == 1..MaxPayrollReqs

\* Requests a behaviour of the class and student routes handles.
MaxSchoolReqs == 2

SchoolReqIds == 1..MaxSchoolReqs

\* Requests a behaviour of the client's enrollment form sends.
MaxEnrollReqs == 3

EnrollReqIds == 1..MaxEnrollReqs

\* Requests a behaviour of registrations of every role handles.
MaxRoleReqs == 2

RoleReqIds == 1..MaxRoleReqs

\* Requests a behaviour of the roll call handles.
MaxRollCallReqs == 2

RollCallReqIds == 1..MaxRollCallReqs

\* Students on record and Present rows of a day when the dashboard is
\* computed; days the dashboard's clock runs over.
MaxStudents == 40
MaxPresent == 40
MaxDashboardDays == 1

\* Requests a behaviour of the substitute lookup handles.
MaxLookupReqs == 2

LookupReqIds == 1..MaxLookupReqs

\* ------------------------------------------------------ program constants
\* insertTimetableSchema: dayOfWeek z.number().min(1).max(6)
MinDayOfWeek == 1
MaxDayOfWeek == 6
\* insertTimetableSchema: periodNumber z.number().min(1).max(8)
MinPeriodNumber == 1
MaxPeriodNumber == 8

\* insertUserSchema: username min(3), password min(6), name min(2)
MinUsernameLen == 3
MinPasswordLen == 6
MinNameLen == 2

\* jwt.sign(..., { expiresIn: "7d" }): the validity of a token, in days.
TokenValidity == 7

\* The days of a month of the server's calendar (new Date(year, month, 1)).
MonthLength == 30

\* HTTP statuses the handlers answer with.
Ok == 200
Created == 201
NoContent == 204
BadRequest == 400
NotFound == 404
Unauthorized == 401
Forbidden == 403
\* IEEE 754 binary64: the digits of a Number's significand
SignificandBits == 53
Conflict == 409
Internal == 500

\* --------------------------------------------------------------- inputs
\* Ids stand for ObjectId strings; a document's id is the number of the
\* request that created it (fresh, never reused).
TeacherIds == {1, 2}
ClassIds == {"c1"}
SectionIds == {"A", "B"}
Subjects == {"Math", "English"}
TimetableSubjects == {"Math"}
\* 7 is outside 1..6: a payload the schema rejects.
DayInputs == {1, 7}
PeriodInputs == {1, 2}

TimetablePayloads ==
    [classId: ClassIds, sectionId: SectionIds, teacherId: TeacherIds,
     subject: TimetableSubjects, dayOfWeek: DayInputs, periodNumber: PeriodInputs]

\* "al" is shorter than 3: a username the schema rejects.
UsernameInputs == {"ann", "bob", "al"}
EmailInputs == {"a@x.io", "b@x.io"}
WellFormedEmails == {"a@x.io", "b@x.io", "c@x.io"}
UserRole == {"admin", "teacher", "student", "parent"}
RoleInputs == {"teacher", "student"}

RegisterPayloads ==
    [username: UsernameInputs, password: {"secret1"}, role: RoleInputs,
     name: {"Ann"}, email: EmailInputs]

\* POST /api/auth/register bodies of every role, and of a role the schema
\* does not know.
RolePayloads ==
    {p \in [username: {"ann", "bob"}, password: {"secret1"},
            role: UserRole \cup {"guest"}, name: {"Ann"},
            email: {"a@x.io", "b@x.io"}] :
        (p.username = "ann") = (p.email = "a@x.io")}

\* GET /api/timetable/substitutes?dayOfWeek&periodNumber&teacherId&subject:
\* 0 and "" stand for a query parameter that is absent.
SubstituteQueries ==
    [dayOfWeek: {1}, periodNumber: PeriodInputs, teacherId: {1, 3},
     subject: {"", "English"}]
      \cup {[dayOfWeek |-> 1, periodNumber |-> 1, teacherId |-> 0,
              subject |-> ""]}

\* The entries that make teachers busy in period 1 (period 2 stays free).
BusyPayloads ==
    {p \in TimetablePayloads :
        /\ p.dayOfWeek = 1 /\ p.periodNumber = 1
        /\ (p.teacherId = 1) = (p.sectionId = "A")}

\* The timetables the substitute lookup starts from: empty, or teacher 1
\* busy in period 1 (an entry created before, with an id of its own).
SeedTimetables ==
    {{},
     {[id |-> 0, classId |-> "c1", sectionId |-> "A", teacherId |-> 1,
       subject |-> "Math", dayOfWeek |-> 1, periodNumber |-> 1]}}

\* The user stores the substitute lookup is run against: users 1 and 2
\* (the timetable's teacher ids) and 3, in these roles.
UserStores ==
    {{[id |-> 1, username |-> "ann", password |-> <<"bcrypt", "secret1">>,
       role |-> "teacher", name |-> "Ann", email |-> "a@x.io"],
      [id |-> 2, username |-> "bob", password |-> <<"bcrypt", "secret1">>,
       role |-> r2, name |-> "Bob", email |-> "b@x.io"],
      [id |-> 3, username |-> "cat", password |-> <<"bcrypt", "secret1">>,
       role |-> r3, name |-> "Cat", email |-> "c@x.io"]} :
         r2 \in {"teacher", "student"}, r3 \in {"teacher"}}

AttendanceStatus == {"Present", "Absent", "Late"}

\* A record of a bulk request; the studentId "" passes the request schema
\* (z.string()) and fails the document's `required`.
RecordInputs ==
    {[studentId |-> "s1", status |-> "Present"],
     [studentId |-> "", status |-> "Present"]}

RecordLists == UNION {[1..n -> RecordInputs] : n \in 0..MaxRecords}

BulkPayloads ==
    [date: {"2026-01-05"}, classId: {"c1"}, sectionId: {"A"},
     records: RecordLists]

\* A body field that is absent (undefined).
Absent == "(absent)"

\* POST /api/auth/login bodies: a stored or an unknown username, the right
\* or a wrong password, and a body without a password.
LoginPayloads ==
    [username: {"ann", "bob"}, password: {"secret1", "wrong00"}]
      \cup {[username |-> "ann", password |-> Absent]}

\* The registrations of the account routes: two usernames, two e-mails.
AccountPayloads ==
    {p \in RegisterPayloads :
        p.username \in {"ann", "bob"} /\ (p.username = "ann" => p.email = "a@x.io")}

\* POST /api/teachers bodies.  salary 0 fails insertTeacherProfileSchema;
\* panNumber "" (absent or empty) passes it and fails the document's
\* `required`.
TeacherPayloads ==
    [username: {"bob"}, password: {"secret1"}, name: {"Bob"},
     email: {"a@x.io", "b@x.io"}, salary: {0, 100}, employeeId: {"E1"},
     panNumber: {"", "P1"}, qualification: {"BEd"},
     designation: {"Teacher"}, subjectSpecialization: {<<"Math">>}]

\* The teachers on record when the behaviours of the payroll routes
\* start, and their profiles: one paid for January already, one never paid.
PayrollTeachers ==
    {[id |-> 12, username |-> "tom", password |-> <<"bcrypt", "secret1">>,
      role |-> "teacher", name |-> "Tom", email |-> "t@x.io"],
     [id |-> 14, username |-> "uma", password |-> <<"bcrypt", "secret1">>,
      role |-> "teacher", name |-> "Uma", email |-> "u@x.io"]}

PayrollProfiles ==
    {[id |-> 52, userId |-> 12, salary |-> 100, employeeId |-> "E2",
      panNumber |-> "P2", qualification |-> "BEd",
      designation |-> "Teacher", subjectSpecialization |-> <<"Math">>,
      salaryHistory |-> <<[month |-> "2026-01", amount |-> 100,
                           paidDate |-> 0]>>],
     [id |-> 54, userId |-> 14, salary |-> 100, employeeId |-> "E4",
      panNumber |-> "P4", qualification |-> "BEd",
      designation |-> "Teacher", subjectSpecialization |-> <<"English">>,
      salaryHistory |-> <<>>]}

\* POST /api/teachers/:id/pay-salary: req.params.id (a teacher with a
\* profile, a user without one) and req.body; an absent field is {}.
PaySalaryBodies ==
    [id: {12, 11}, month: {{}, {"2026-01"}}, amount: {{0}, {100}}]

\* PATCH /api/teachers/:id: req.params.id and req.body.
TeacherUpdateBodies ==
    [id: {12}, salary: {{}, {200}}, designation: {{}, {"Head"}},
     qualification: {{}}, subjectSpecialization: {{}}]

\* The values of the enrollment form: a free and a taken username, a free
\* and a taken admission number.
EnrollForms ==
    [username: {"bob", "cat"}, password: {"secret1"}, name: {"Bob"},
     email: {"b@x.io"}, admissionNumber: {"1", "2"}]

\* The POST /api/teachers body of the payroll behaviours.
PayrollTeacherPayloads ==
    {p \in TeacherPayloads :
        p.email = "b@x.io" /\ p.salary = 100 /\ p.panNumber = "P1"}

\* The user stores the account routes start from: empty, or one user
\* registered before.
AccountStores ==
    {{},
     {[id |-> 0, username |-> "ann", password |-> <<"bcrypt", "secret1">>,
       role |-> "teacher", name |-> "Ann", email |-> "a@x.io"]}}

\* The users the authenticated routes start from: an admin and a student,
\* with ids of their own (a teacher registers).
AccessStore ==
    {[id |-> 11, username |-> "ann", password |-> <<"bcrypt", "secret1">>,
      role |-> "admin", name |-> "Ann", email |-> "a@x.io"],
     [id |-> 13, username |-> "cat", password |-> <<"bcrypt", "secret1">>,
      role |-> "student", name |-> "Cat", email |-> "c@x.io"]}

AccessLogins == [username: {"ann"}, password: {"secret1"}]

AccessRegistrations ==
    {[username |-> "bob", password |-> "secret1", role |-> "teacher",
      name |-> "Bob", email |-> "b@x.io"]}

\* The day the behaviours of the authenticated routes start on: the last
\* day on which a token of day 0 is valid.
AccessStartDay == TokenValidity - 1

\* A token with the claims of an admin, signed with another key.
ForgedToken ==
    [id |-> 11, role |-> "admin", email |-> "a@x.io", iat |-> 0,
     exp |-> MaxDay + TokenValidity, key |-> "another key"]

\* A request without a body.
EmptyBody == <<>>

\* POST /api/attendance bodies.
AttendanceBodies ==
    [date: {"2026-01-05"}, studentId: {"s1"}, classId: {"c1"},
     sectionId: {"A"}, status: {"Present"}]

FeeStatus == {"Pending", "Cleared"}

\* POST /api/fees bodies: amount 0 fails the schema, an absent status
\* defaults to "Pending".
FeeBodies ==
    [studentId: {"s1"}, amount: {0, 100}, period: {"January 2026"},
     dueDate: {"2026-01-31"}, status: {Absent, "Cleared"}]

\* The day the behaviours of the fee routes start on: the last day of a
\* calendar month, so that the month changes while they run.
FeeStartDay == MonthLength - 1

\* The fees on record when the behaviours of the fee routes start: one
\* paid on the start day, two still to pay.
FeeStore ==
    {[id |-> 21, studentId |-> "s1", amount |-> 250,
      period |-> "December 2025", dueDate |-> "2025-12-31",
      status |-> "Cleared", paidDate |-> {FeeStartDay}],
     [id |-> 22, studentId |-> "s1", amount |-> 100,
      period |-> "December 2025", dueDate |-> "2025-12-31",
      status |-> "Pending", paidDate |-> {}],
     [id |-> 23, studentId |-> "s2", amount |-> 50,
      period |-> "December 2025", dueDate |-> "2025-12-31",
      status |-> "Pending", paidDate |-> {}]}

\* PATCH /api/fees/:id/pay: req.params, naming a fee on record from the
\* start, a fee a request may create, or no fee at all.
PayParams == [id: {f.id : f \in FeeStore} \cup FeeReqIds]

\* The bodies of the routes of the access specification.
AccessBodies(route) ==
    IF route = "POST /api/attendance" THEN AttendanceBodies
    ELSE IF route = "POST /api/fees"
    THEN {b \in FeeBodies : b.amount = 100 /\ b.status = Absent}
    ELSE {EmptyBody}

\* The bodies (or params) of the routes of the fee specification.
FeeRouteBodies(route) ==
    IF route = "POST /api/fees" THEN FeeBodies
    ELSE IF route = "PATCH /api/fees/:id/pay" THEN PayParams
    ELSE {EmptyBody}

\* new Date().toISOString().split("T")[0]
isoDate(t) == ToString(t)

\* A student on record before the behaviours start: the i-th, linked to
\* a user of its own.
EnrolledStudent(i) ==
    [id |-> 100 + i, userId |-> 200 + i, admissionNumber |-> ToString(i),
     rollNumber |-> "1", classId |-> 31, sectionId |-> 41,
     guardianName |-> "G", guardianContact |-> "555"]

\* An attendance row on record before the behaviours start: the i-th of
\* the given date and status.
MarkedAttendance(i, date, status) ==
    [id |-> <<0, i>>, date |-> date, studentId |-> ToString(i),
     classId |-> "c1", sectionId |-> "A", status |-> status]

\* The stores the dashboard is computed on: n students, and p Present
\* rows of day 0 besides an Absent row of day 0 and a Present row of
\* another day.
DashboardStudents == {{EnrolledStudent(i) : i \in 1..n} : n \in 0..MaxStudents}

DashboardAttendance ==
    {{MarkedAttendance(i, isoDate(0), "Present") : i \in 1..p}
        \cup {MarkedAttendance(p + 1, isoDate(0), "Absent"),
               MarkedAttendance(p + 2, isoDate(1), "Present")} :
     p \in 0..MaxPresent}

\* The classes, sections and students on record when the behaviours of the
\* class and student routes start: a student of class 31, section 41.
SchoolClasses ==
    {[id |-> 31, name |-> "Five", subjects |-> <<"Math">>],
     [id |-> 32, name |-> "Six", subjects |-> <<"Math", "Art">>]}

SchoolSections ==
    {[id |-> 41, name |-> "A", classId |-> 31],
     [id |-> 42, name |-> "A", classId |-> 32]}

SchoolStudents == {EnrolledStudent(1)}

\* POST /api/classes: req.body.
ClassBodies == [name: {"", "Seven"}, subjects: {<<>>, <<"Math">>}]

\* PATCH /api/classes/:id: req.params.id (a class on record, no class) and
\* req.body; an absent field is {}.
ClassUpdateBodies ==
    [id: {31, 39}, name: {{}, {""}, {"Eight"}}, subjects: {{}, {<<>>}}]

\* DELETE /api/classes/:id: req.params.id.
ClassParams == [id: {31, 39}]

\* POST /api/students: req.body; userId is the account of student "cat" or
\* the account the student on record belongs to.
StudentBodies ==
    [userId: {13, 201}, admissionNumber: {{}, {"1"}, {"2"}},
     rollNumber: {"1"}, classId: {31}, sectionId: {41},
     guardianName: {"G"}, guardianContact: {"555"}]

\* POST /api/attendance bodies of the roll call of day 0 for the student on
\* record.
RollCallBodies ==
    [date: {isoDate(0)}, studentId: {"1"}, classId: {"c1"}, sectionId: {"A"},
     status: {"Present", "Absent"}]

\* POST /api/attendance/bulk bodies of the roll call of day 0: the student
\* once, and the student twice.
RollCallBulkPayloads ==
    [date: {isoDate(0)}, classId: {"c1"}, sectionId: {"A"},
     records: {<<[studentId |-> "1", status |-> "Present"]>>,
               <<[studentId |-> "1", status |-> "Present"],
                 [studentId |-> "1", status |-> "Present"]>>}]

\* DELETE /api/students/:id: req.params.id.
StudentParams == [id: {s.id : s \in SchoolStudents}]

\* POST /api/students bodies of the roll call: a second student.
RollCallStudentBodies ==
    {b \in StudentBodies : b.userId = 13 /\ b.admissionNumber = {"2"}}

\* The two revisions of server/routes.ts in the repository.
Revisions == {"routes.ts", "part_007"}

VARIABLES
    revision,    \* which revision of the routes the server runs
    users,       \* UserModel's collection
    timetable,   \* TimetableModel's collection
    attendance,  \* AttendanceModel's collection
    profiles,    \* TeacherProfileModel's collection
    fees,        \* FeeModel's collection
    students,    \* StudentModel's collection
    classes,     \* ClassModel's collection
    sections,    \* SectionModel's collection
    client,      \* the browser's enrollment flow (StudentsPage)
    now,         \* the server's clock (Date.now()), in days
    reqs         \* the requests: idle, in flight (at an await) or answered

vars ==
    <<revision, users, timetable, attendance, profiles, fees, students,
      classes, sections, client, now, reqs>>

Idle == [kind |-> "idle"]

\* The enrollment dialog of StudentsPage before it is submitted.
ClientIdle == [pc |-> "idle"]

\* res.status(s).json({message: m})
Answer(req, s, m) == [req EXCEPT !.pc = "done", !.status = s, !.message = m]

\* Requests are numbered in the order they arrive.
Arrives(r) ==
    /\ reqs[r] = Idle
    /\ IF r = 1 THEN TRUE ELSE reqs[r - 1] # Idle

\* -------------------------------------------------------------- timetable
\* insertTimetableSchema.safeParse(req.body).success
insertTimetableSchema(p) ==
    /\ p.dayOfWeek >= MinDayOfWeek /\ p.dayOfWeek <= MaxDayOfWeek
    /\ p.periodNumber >= MinPeriodNumber /\ p.periodNumber <= MaxPeriodNumber

\* TimetableSchema.index({classId, sectionId, dayOfWeek, periodNumber}, unique)
SameClassSlot(a, b) ==
    /\ a.classId = b.classId /\ a.sectionId = b.sectionId
    /\ a.dayOfWeek = b.dayOfWeek /\ a.periodNumber = b.periodNumber

\* TimetableSchema.index({teacherId, dayOfWeek, periodNumber}, unique)
SameTeacherSlot(a, b) ==
    /\ a.teacherId = b.teacherId
    /\ a.dayOfWeek = b.dayOfWeek /\ a.periodNumber = b.periodNumber

\* Mutant: the teacher-slot index is missing.
TimetableDuplicateKey_ClassOnly(tt, e) == \E x \in tt : SameClassSlot(x, e)

\* Mutant: the class-slot index is missing.
TimetableDuplicateKey_TeacherOnly(tt, e) == \E x \in tt : SameTeacherSlot(x, e)

\* The store's unique indexes: an insert of e into tt raises E11000.
TimetableDuplicateKey(tt, e) ==
    \E x \in tt : SameClassSlot(x, e) \/ SameTeacherSlot(x, e)

\* storage.getTimetableByTeacherPeriod: the entries findOne may return
\* (empty: undefined).
getTimetableByTeacherPeriod(tt, teacherId, dayOfWeek, periodNumber) ==
    {x \in tt : /\ x.teacherId = teacherId
                /\ x.dayOfWeek = dayOfWeek
                /\ x.periodNumber = periodNumber}

\* The document TimetableModel.create stores for request r.
TimetableDoc(r, p) ==
    [id |-> r, classId |-> p.classId, sectionId |-> p.sectionId,
     teacherId |-> p.teacherId, subject |-> p.subject,
     dayOfWeek |-> p.dayOfWeek, periodNumber |-> p.periodNumber]

\* storage.createTimetable as the handler sees it: the answer and the store.
createTimetable(r) ==
    LET e == TimetableDoc(r, reqs[r].payload) IN
    IF TimetableDuplicateKey(timetable, e)
    THEN /\ reqs' = [reqs EXCEPT ![r] = Answer(@, Internal, "Internal server error")]
         /\ UNCHANGED timetable
    ELSE /\ reqs' = [reqs EXCEPT ![r] = Answer(@, Created, "created")]
         /\ timetable' = timetable \cup {e}

\* POST /api/timetable (routes.ts): parse, then issue the existence query.
TTReceive(r, p) ==
    /\ revision = "routes.ts"
    /\ Arrives(r)
    /\ LET req == [kind |-> "ttcreate", payload |-> p, pc |-> "check",
                   status |-> 0, message |-> ""] IN
       reqs' = [reqs EXCEPT ![r] =
                   IF insertTimetableSchema(p) THEN req
                   ELSE Answer(req, BadRequest, "Validation failed")]
    /\ UNCHANGED <<revision, client, classes, sections, now, profiles, fees, students, users, timetable, attendance>>

\* Mutant: the existence check and the insert are one atomic step.
TTCheck_Atomic(r) ==
    /\ reqs[r] # Idle /\ reqs[r].kind = "ttcreate" /\ reqs[r].pc = "check"
    /\ LET p == reqs[r].payload IN
       IF getTimetableByTeacherPeriod(timetable, p.teacherId, p.dayOfWeek,
                                      p.periodNumber) # {}
       THEN /\ reqs' = [reqs EXCEPT ![r] = Answer(@, BadRequest,
                           "Teacher is already busy during this period.")]
            /\ UNCHANGED timetable
       ELSE createTimetable(r)
    /\ UNCHANGED <<revision, client, classes, sections, now, profiles, fees, students, users, attendance>>

\* POST /api/timetable (routes.ts): the existence query returns; a busy
\* teacher is answered, otherwise the insert is issued.
TTCheck(r) ==
    /\ reqs[r] # Idle /\ reqs[r].kind = "ttcreate" /\ reqs[r].pc = "check"
    /\ LET p == reqs[r].payload IN
       reqs' = [reqs EXCEPT ![r] =
                   IF getTimetableByTeacherPeriod(timetable, p.teacherId,
                          p.dayOfWeek, p.periodNumber) # {}
                   THEN Answer(@, BadRequest,
                               "Teacher is already busy during this period.")
                   ELSE [@ EXCEPT !.pc = "insert"]]
    /\ UNCHANGED <<revision, client, classes, sections, now, profiles, fees, students, users, timetable, attendance>>

\* POST /api/timetable (routes.ts): the insert returns or throws.
TTInsert(r) ==
    /\ reqs[r] # Idle /\ reqs[r].kind = "ttcreate" /\ reqs[r].pc = "insert"
    /\ createTimetable(r)
    /\ UNCHANGED <<revision, client, classes, sections, now, profiles, fees, students, users, attendance>>

\* POST /api/timetable (part_007): parse and insert, no existence query.
TTCreateDirect(r, p) ==
    /\ revision = "part_007"
    /\ Arrives(r)
    /\ LET req == [kind |-> "ttdirect", payload |-> p, pc |-> "insert",
                   status |-> 0, message |-> ""]
           e == TimetableDoc(r, p) IN
       IF ~insertTimetableSchema(p)
       THEN /\ reqs' = [reqs EXCEPT ![r] = Answer(req, BadRequest, "Validation failed")]
            /\ UNCHANGED timetable
       ELSE IF TimetableDuplicateKey(timetable, e)
       THEN /\ reqs' = [reqs EXCEPT ![r] = Answer(req, Internal, "Internal server error")]
            /\ UNCHANGED timetable
       ELSE /\ reqs' = [reqs EXCEPT ![r] = Answer(req, Created, "created")]
            /\ timetable' = timetable \cup {e}
    /\ UNCHANGED <<revision, client, classes, sections, now, profiles, fees, students, users, attendance>>

\* DELETE /api/timetable/:id (part_007): storage.deleteTimetable.
TTDelete(r, id) ==
    /\ revision = "part_007"
    /\ Arrives(r)
    /\ LET req == [kind |-> "ttdelete", payload |-> [id |-> id], pc |-> "delete",
                   status |-> 0, message |-> ""]
           found == {x \in timetable : x.id = id} IN
       /\ timetable' = timetable \ found
       /\ reqs' = [reqs EXCEPT ![r] =
                      IF found = {}
                      THEN Answer(req, NotFound, "Timetable entry not found")
                      ELSE Answer(req, NoContent, "")]
    /\ UNCHANGED <<revision, client, classes, sections, now, profiles, fees, students, users, attendance>>

\* --------------------------------------------------------------- users
\* insertUserSchema.safeParse(req.body).success
insertUserSchema(p) ==
    /\ Len(p.username) >= MinUsernameLen
    /\ Len(p.password) >= MinPasswordLen
    /\ p.role \in UserRole
    /\ Len(p.name) >= MinNameLen
    /\ p.email \in WellFormedEmails

\* bcrypt.hash(password, 10)
bcryptHash(password) == <<"bcrypt", password>>

\* storage.getUserByEmail: the users findOne may return.
getUserByEmail(us, email) == {u \in us : u.email = email}

\* storage.getUserByUsername
getUserByUsername(us, username) == {u \in us : u.username = username}

\* Mutant: the unique index on email is missing.
UserDuplicateKey_UsernameOnly(us, d) == \E u \in us : u.username = d.username

\* UserSchema: username and email are unique: an insert of d raises E11000.
UserDuplicateKey(us, d) ==
    \E u \in us : u.username = d.username \/ u.email = d.email

\* Mutant: the public route stores no administrator.
UserDoc_NoAdmin(r, p) ==
    [id |-> r, username |-> p.username, password |-> bcryptHash(p.password),
     role |-> IF p.role = "admin" THEN "student" ELSE p.role,
     name |-> p.name, email |-> p.email]

\* The document storage.createUser stores for request r.
UserDoc(r, p) ==
    [id |-> r, username |-> p.username, password |-> bcryptHash(p.password),
     role |-> p.role, name |-> p.name, email |-> p.email]

\* const { password, ...userWithoutPassword } = user
userWithoutPassword(u) ==
    [id |-> u.id, username |-> u.username, role |-> u.role,
     name |-> u.name, email |-> u.email]

\* jwt.sign({ id, role, email }, JWT_SECRET, { expiresIn: "7d" }) at time t:
\* the claims, the time of issue, the expiry and the signing key.
jwtSign(u, t) ==
    [id |-> u.id, role |-> u.role, email |-> u.email,
     iat |-> t, exp |-> t + TokenValidity, key |-> "JWT_SECRET"]

\* History, not program state: a stored user had the username or the
\* e-mail of p when the request carrying p arrived.
TakenOnArrival(us, p) ==
    \E u \in us : u.username = p.username \/ u.email = p.email

\* POST /api/auth/register: parse, then issue the e-mail query (what the
\* server does when the request arrives).
RegArrival(r, p) ==
    /\ Arrives(r)
    /\ LET req == [kind |-> "register", payload |-> p, pc |-> "email",
                   status |-> 0, message |-> "", token |-> {}, user |-> {},
                   takenOnArrival |-> TakenOnArrival(users, p)] IN
       reqs' = [reqs EXCEPT ![r] =
                   IF insertUserSchema(p) THEN req
                   ELSE Answer(req, BadRequest, "Validation failed")]

\* A register request of any sender arrives.
RegReceive(r, p) ==
    /\ RegArrival(r, p)
    /\ UNCHANGED <<revision, client, classes, sections, now, profiles, fees, students, users, timetable, attendance>>

\* POST /api/auth/register: the e-mail query returns.
RegEmail(r) ==
    /\ reqs[r] # Idle /\ reqs[r].kind = "register" /\ reqs[r].pc = "email"
    /\ reqs' = [reqs EXCEPT ![r] =
                   IF getUserByEmail(users, reqs[r].payload.email) # {}
                   THEN Answer(@, Conflict, "Email already in use")
                   ELSE [@ EXCEPT !.pc = "username"]]
    /\ UNCHANGED <<revision, client, classes, sections, now, profiles, fees, students, users, timetable, attendance>>

\* POST /api/auth/register: the username query returns.
RegUsername(r) ==
    /\ reqs[r] # Idle /\ reqs[r].kind = "register" /\ reqs[r].pc = "username"
    /\ reqs' = [reqs EXCEPT ![r] =
                   IF getUserByUsername(users, reqs[r].payload.username) # {}
                   THEN Answer(@, Conflict, "Username already in use")
                   ELSE [@ EXCEPT !.pc = "create"]]
    /\ UNCHANGED <<revision, client, classes, sections, now, profiles, fees, students, users, timetable, attendance>>

\* POST /api/auth/register: storage.createUser returns or throws.
RegCreate(r) ==
    /\ reqs[r] # Idle /\ reqs[r].kind = "register" /\ reqs[r].pc = "create"
    /\ LET d == UserDoc(r, reqs[r].payload) IN
       IF UserDuplicateKey(users, d)
       THEN /\ reqs' = [reqs EXCEPT ![r] = Answer(@, Internal, "Internal server error")]
            /\ UNCHANGED users
       ELSE /\ reqs' = [reqs EXCEPT ![r] =
                   [Answer(@, Created, "created") EXCEPT
                       !.token = {jwtSign(d, now)},
                       !.user = {userWithoutPassword(d)}]]
            /\ users' = users \cup {d}
    /\ UNCHANGED <<revision, client, classes, sections, now, profiles, fees, students, timetable, attendance>>

\* loginSchema.safeParse(req.body).success
loginSchema(p) == p.username # Absent /\ p.password # Absent

\* Mutant: the password is compared with the stored value as it is.
bcryptCompare_Plain(password, hash) == hash = password

\* bcrypt.compare(password, hash)
bcryptCompare(password, hash) == hash = bcryptHash(password)

\* POST /api/auth/login: parse, then issue the username query.
LoginReceive(r, p) ==
    /\ Arrives(r)
    /\ LET req == [kind |-> "login", payload |-> p, pc |-> "user",
                   status |-> 0, message |-> "", token |-> {}, user |-> {},
                   found |-> {}] IN
       reqs' = [reqs EXCEPT ![r] =
                   IF loginSchema(p) THEN req
                   ELSE Answer(req, BadRequest, "Validation failed")]
    /\ UNCHANGED <<revision, client, classes, sections, now, profiles, fees, students, users, timetable, attendance>>

\* Mutant: an unknown username gets an answer of its own.
LoginUser_NamesTheCause(r) ==
    /\ reqs[r] # Idle /\ reqs[r].kind = "login" /\ reqs[r].pc = "user"
    /\ LET found == getUserByUsername(users, reqs[r].payload.username) IN
       IF found = {}
       THEN reqs' = [reqs EXCEPT ![r] = Answer(@, NotFound, "User not found")]
       ELSE \E u \in found :
               reqs' = [reqs EXCEPT ![r] =
                           [@ EXCEPT !.pc = "compare", !.found = {u}]]
    /\ UNCHANGED <<revision, client, classes, sections, now, profiles, fees, students, users, timetable, attendance>>

\* POST /api/auth/login: the username query returns (findOne: one of the
\* matching users, or none).
LoginUser(r) ==
    /\ reqs[r] # Idle /\ reqs[r].kind = "login" /\ reqs[r].pc = "user"
    /\ LET found == getUserByUsername(users, reqs[r].payload.username) IN
       IF found = {}
       THEN reqs' = [reqs EXCEPT ![r] =
                        Answer(@, Unauthorized, "Invalid username or password")]
       ELSE \E u \in found :
               reqs' = [reqs EXCEPT ![r] =
                           [@ EXCEPT !.pc = "compare", !.found = {u}]]
    /\ UNCHANGED <<revision, client, classes, sections, now, profiles, fees, students, users, timetable, attendance>>

\* POST /api/auth/login: bcrypt.compare returns; the token is signed.
LoginCompare(r) ==
    /\ reqs[r] # Idle /\ reqs[r].kind = "login" /\ reqs[r].pc = "compare"
    /\ \E u \in reqs[r].found :
          reqs' = [reqs EXCEPT ![r] =
                      IF bcryptCompare(reqs[r].payload.password, u.password)
                      THEN [Answer(@, Ok, "") EXCEPT
                               !.token = {jwtSign(u, now)},
                               !.user = {userWithoutPassword(u)}]
                      ELSE Answer(@, Unauthorized,
                                  "Invalid username or password")]
    /\ UNCHANGED <<revision, client, classes, sections, now, profiles, fees, students, users, timetable, attendance>>

\* ------------------------------------------------------------- teachers
\* insertUserSchema.safeParse({username, password, name, email, role: "teacher"})
TeacherUserData(p) ==
    [username |-> p.username, password |-> p.password, role |-> "teacher",
     name |-> p.name, email |-> p.email]

\* insertTeacherProfileSchema.safeParse(...).success
insertTeacherProfileSchema(p) ==
    /\ p.salary > 0 /\ Len(p.employeeId) >= 1
    /\ Len(p.qualification) >= 1 /\ Len(p.designation) >= 1
    /\ Len(p.subjectSpecialization) >= 1

\* The document storage.createTeacherProfile stores for request r.
TeacherProfileDoc(r, userId, p) ==
    [id |-> r, userId |-> userId, salary |-> p.salary,
     employeeId |-> p.employeeId, panNumber |-> p.panNumber,
     qualification |-> p.qualification, designation |-> p.designation,
     subjectSpecialization |-> p.subjectSpecialization,
     salaryHistory |-> <<>>]

\* Mutant: a month that is in the history already is not paid again.
paySalary_OncePerMonth(ps, userId, month, amount, paidDate) ==
    {IF x.userId = userId
        /\ \A i \in 1..Len(x.salaryHistory) : x.salaryHistory[i].month # month
     THEN [x EXCEPT !.salaryHistory =
              Append(@, [month |-> month, amount |-> amount,
                         paidDate |-> paidDate])]
     ELSE x : x \in ps}

\* storage.paySalary: findOneAndUpdate({userId},
\* {$push: {salaryHistory: {month, amount, paidDate}}}).
paySalary(ps, userId, month, amount, paidDate) ==
    {IF x.userId = userId
     THEN [x EXCEPT !.salaryHistory =
              Append(@, [month |-> month, amount |-> amount,
                         paidDate |-> paidDate])]
     ELSE x : x \in ps}

\* One field of an update: a value that is given replaces the stored one,
\* undefined leaves it.
Updated(stored, given) == IF given = {} THEN stored ELSE CHOOSE v \in given : TRUE

\* storage.updateTeacherProfile: findOneAndUpdate({userId}, data) with
\* data = {salary, subjectSpecialization, qualification, designation}.
updateTeacherProfile(ps, userId, data) ==
    {IF x.userId = userId
     THEN [x EXCEPT !.salary = Updated(@, data.salary),
                    !.subjectSpecialization =
                        Updated(@, data.subjectSpecialization),
                    !.qualification = Updated(@, data.qualification),
                    !.designation = Updated(@, data.designation)]
     ELSE x : x \in ps}

\* TeacherProfileSchema: panNumber `required`; userId and employeeId
\* unique: TeacherProfileModel.create throws.
TeacherProfileRejected(ps, d) ==
    \/ d.panNumber = ""
    \/ \E x \in ps : x.userId = d.userId \/ x.employeeId = d.employeeId

\* POST /api/teachers: parse both schemas, then issue the e-mail query.
TeachReceive(r, p) ==
    /\ Arrives(r)
    /\ LET req == [kind |-> "teacher", payload |-> p, pc |-> "email",
                   status |-> 0, message |-> "", token |-> {}, user |-> {},
                   takenOnArrival |-> TakenOnArrival(users, p)] IN
       reqs' = [reqs EXCEPT ![r] =
                   IF ~insertUserSchema(TeacherUserData(p))
                   THEN Answer(req, BadRequest, "Validation failed")
                   ELSE IF ~insertTeacherProfileSchema(p)
                   THEN Answer(req, BadRequest, "Profile validation failed")
                   ELSE req]
    /\ UNCHANGED <<revision, client, classes, sections, now, profiles, fees, students, users, timetable, attendance>>

\* POST /api/teachers: the e-mail query returns.
TeachEmail(r) ==
    /\ reqs[r] # Idle /\ reqs[r].kind = "teacher" /\ reqs[r].pc = "email"
    /\ reqs' = [reqs EXCEPT ![r] =
                   IF getUserByEmail(users, reqs[r].payload.email) # {}
                   THEN Answer(@, Conflict, "Email already in use")
                   ELSE [@ EXCEPT !.pc = "username"]]
    /\ UNCHANGED <<revision, client, classes, sections, now, profiles, fees, students, users, timetable, attendance>>

\* POST /api/teachers: the username query returns.
TeachUsername(r) ==
    /\ reqs[r] # Idle /\ reqs[r].kind = "teacher" /\ reqs[r].pc = "username"
    /\ reqs' = [reqs EXCEPT ![r] =
                   IF getUserByUsername(users, reqs[r].payload.username) # {}
                   THEN Answer(@, Conflict, "Username already in use")
                   ELSE [@ EXCEPT !.pc = "create"]]
    /\ UNCHANGED <<revision, client, classes, sections, now, profiles, fees, students, users, timetable, attendance>>

\* POST /api/teachers: storage.createUser returns or throws.
TeachCreateUser(r) ==
    /\ reqs[r] # Idle /\ reqs[r].kind = "teacher" /\ reqs[r].pc = "create"
    /\ LET d == UserDoc(r, TeacherUserData(reqs[r].payload)) IN
       IF UserDuplicateKey(users, d)
       THEN /\ reqs' = [reqs EXCEPT ![r] = Answer(@, Internal, "Internal server error")]
            /\ UNCHANGED users
       ELSE /\ reqs' = [reqs EXCEPT ![r] =
                           [@ EXCEPT !.pc = "profile",
                                     !.user = {userWithoutPassword(d)}]]
            /\ users' = users \cup {d}
    /\ UNCHANGED <<revision, client, classes, sections, now, profiles, fees, students, timetable, attendance>>

\* Mutant: the user created before is removed when the profile is rejected.
TeachCreateProfile_Rollback(r) ==
    /\ reqs[r] # Idle /\ reqs[r].kind = "teacher" /\ reqs[r].pc = "profile"
    /\ LET d == TeacherProfileDoc(r, r, reqs[r].payload) IN
       IF TeacherProfileRejected(profiles, d)
       THEN /\ reqs' = [reqs EXCEPT ![r] =
                           [Answer(@, Internal, "Internal server error")
                               EXCEPT !.user = {}]]
            /\ users' = {u \in users : u.id # r}
            /\ UNCHANGED profiles
       ELSE /\ reqs' = [reqs EXCEPT ![r] = Answer(@, Created, "created")]
            /\ profiles' = profiles \cup {d}
            /\ UNCHANGED users
    /\ UNCHANGED <<revision, client, classes, sections, now, fees, students, timetable, attendance>>

\* POST /api/teachers: storage.createTeacherProfile returns or throws;
\* the user created before stays.
TeachCreateProfile(r) ==
    /\ reqs[r] # Idle /\ reqs[r].kind = "teacher" /\ reqs[r].pc = "profile"
    /\ LET d == TeacherProfileDoc(r, r, reqs[r].payload) IN
       IF TeacherProfileRejected(profiles, d)
       THEN /\ reqs' = [reqs EXCEPT ![r] =
                           [Answer(@, Internal, "Internal server error")
                               EXCEPT !.user = {}]]
            /\ UNCHANGED profiles
       ELSE /\ reqs' = [reqs EXCEPT ![r] = Answer(@, Created, "created")]
            /\ profiles' = profiles \cup {d}
    /\ UNCHANGED <<revision, client, classes, sections, now, fees, students, users, timetable, attendance>>

\* --------------------------------------------------- substitute lookup
\* UserModel.find({ role: "teacher" })
teacherUsers_AnyRole(us) == us

teacherUsers(us) == {u \in us : u.role = "teacher"}

\* TimetableModel.find({ dayOfWeek, periodNumber })
busyTimetables(tt, dayOfWeek, periodNumber) ==
    {t \in tt : t.dayOfWeek = dayOfWeek /\ t.periodNumber = periodNumber}

\* new Set(busyTimetables.map(t => t.teacherId))
busyTeacherIds(bt) == {t.teacherId : t \in bt}

\* Mutant: the excluded teacher is not filtered out.
availableTeachers_KeepsExcluded(teachers, busyIds, excludedTeacherId, subject) ==
    {t \in teachers : t.id \notin busyIds}

\* Mutant: a given subject narrows the result to the teachers who teach
\* that subject somewhere in the timetable.
availableTeachers_BySubject(teachers, busyIds, excludedTeacherId, subject) ==
    {t \in teachers :
        /\ t.id # excludedTeacherId
        /\ t.id \notin busyIds
        /\ \/ subject = ""
           \/ \E x \in timetable : x.teacherId = t.id /\ x.subject = subject}

\* teachers.filter(t => t.id !== excludedTeacherId && !busyTeacherIds.has(t.id))
availableTeachers(teachers, busyIds, excludedTeacherId, subject) ==
    {t \in teachers : t.id # excludedTeacherId /\ t.id \notin busyIds}

\* docToUser: every field of the document, the password hash included.
docToUser(doc) ==
    [id |-> doc.id, username |-> doc.username, password |-> doc.password,
     role |-> doc.role, name |-> doc.name, email |-> doc.email]

\* storage.getSubstituteTeachers on one state of the store.
getSubstituteTeachers(us, tt, dayOfWeek, periodNumber, excludedTeacherId, subject) ==
    {docToUser(t) :
        t \in availableTeachers(teacherUsers(us),
                  busyTeacherIds(busyTimetables(tt, dayOfWeek, periodNumber)),
                  excludedTeacherId, subject)}

\* GET /api/timetable/substitutes (routes.ts): the parameters are checked
\* and getSubstituteTeachers reads the teacher users (its first query).
SubTeachers(r, q) ==
    /\ revision = "routes.ts"
    /\ Arrives(r)
    /\ LET req == [kind |-> "substitutes", payload |-> q, pc |-> "busy",
                   status |-> 0, message |-> "",
                   teachers |-> teacherUsers(users),
                   busyTeacherIds |-> {}, body |-> {}] IN
       reqs' = [reqs EXCEPT ![r] =
                   IF q.dayOfWeek = 0 \/ q.periodNumber = 0 \/ q.teacherId = 0
                   THEN Answer([req EXCEPT !.teachers = {}], BadRequest,
                               "Missing required parameters")
                   ELSE req]
    /\ UNCHANGED <<revision, client, classes, sections, now, profiles, fees, students, users, timetable, attendance>>

\* getSubstituteTeachers, 2: the entries of the slot are read.
SubBusy(r) ==
    /\ reqs[r] # Idle /\ reqs[r].kind = "substitutes" /\ reqs[r].pc = "busy"
    /\ LET q == reqs[r].payload IN
       reqs' = [reqs EXCEPT ![r] =
                   [@ EXCEPT !.pc = "absent",
                             !.busyTeacherIds = busyTeacherIds(
                                 busyTimetables(timetable, q.dayOfWeek,
                                                q.periodNumber))]]
    /\ UNCHANGED <<revision, client, classes, sections, now, profiles, fees, students, users, timetable, attendance>>

\* getSubstituteTeachers, 3 and 4: today's absences are read (and not
\* used), the teachers are filtered and the route answers.
SubAnswer(r) ==
    /\ reqs[r] # Idle /\ reqs[r].kind = "substitutes" /\ reqs[r].pc = "absent"
    /\ LET q == reqs[r].payload IN
       reqs' = [reqs EXCEPT ![r] =
                   [Answer(@, Ok, "") EXCEPT
                       !.body = {docToUser(t) :
                                    t \in availableTeachers(reqs[r].teachers,
                                              reqs[r].busyTeacherIds,
                                              q.teacherId, q.subject)}]]
    /\ UNCHANGED <<revision, client, classes, sections, now, profiles, fees, students, users, timetable, attendance>>

\* ---------------------------------------------------------- attendance
\* bulkAttendanceSchema.safeParse(req.body).success
bulkAttendanceSchema(p) ==
    \A i \in 1..Len(p.records) : p.records[i].status \in AttendanceStatus

\* AttendanceSchema: every field `required` (a string must not be empty),
\* status one of the enum: what AttendanceModel.create validates.
AttendanceDocValid(d) ==
    /\ d.date # "" /\ d.studentId # "" /\ d.classId # "" /\ d.sectionId # ""
    /\ d.status \in AttendanceStatus

\* The row storage.createAttendance stores for record i of request r.
AttendanceDoc(r, i, p) ==
    [id |-> <<r, i>>, date |-> p.date, studentId |-> p.records[i].studentId,
     classId |-> p.classId, sectionId |-> p.sectionId,
     status |-> p.records[i].status]

\* Mutant: an existing row of the same (studentId, date) is replaced.
createAttendance_Upsert(att, d) ==
    {x \in att : ~(x.studentId = d.studentId /\ x.date = d.date)} \cup {d}

\* storage.createAttendance: AttendanceModel.create adds a document; the
\* indexes of AttendanceSchema are not unique.
createAttendance(att, d) == att \cup {d}

\* Mutant: Promise.allSettled: failures do not reject.
PromiseAll_AllSettled(pending, failed) ==
    IF pending = {} THEN "fulfilled" ELSE "pending"

\* Promise.all over the inserts of a batch: rejected with the first
\* failure, fulfilled when every insert has succeeded.
PromiseAll(pending, failed) ==
    IF failed # {} THEN "rejected"
    ELSE IF pending = {} THEN "fulfilled" ELSE "pending"

\* The rows of request r in the store.
RowsOf(att, r) == {x \in att : x.id[1] = r}

\* The handler's continuation after `await Promise.all(...)`.
BulkSettle(req, att, r) ==
    IF req.pc = "done" THEN req
    ELSE LET outcome == PromiseAll(req.pending, req.failed) IN
         IF outcome = "rejected"
         THEN Answer(req, Internal, "Internal server error")
         ELSE IF outcome = "fulfilled"
         THEN [Answer(req, Created, "created") EXCEPT !.body = RowsOf(att, r)]
         ELSE req

\* POST /api/attendance/bulk: parse, then start one createAttendance per
\* record (records.map runs them all before the first await).
BulkReceive(r, p) ==
    /\ Arrives(r)
    /\ LET req == [kind |-> "bulk", payload |-> p, pc |-> "inserting",
                   status |-> 0, message |-> "",
                   pending |-> 1..Len(p.records), failed |-> {}, body |-> {}] IN
       reqs' = [reqs EXCEPT ![r] =
                   IF bulkAttendanceSchema(p) THEN BulkSettle(req, attendance, r)
                   ELSE Answer([req EXCEPT !.pending = {}], BadRequest,
                               "Validation failed")]
    /\ UNCHANGED <<revision, client, classes, sections, now, profiles, fees, students, users, timetable, attendance>>

\* POST /api/attendance/bulk: the insert of record i returns or throws.
BulkInsert(r, i) ==
    /\ reqs[r] # Idle /\ reqs[r].kind = "bulk" /\ i \in reqs[r].pending
    /\ LET d == AttendanceDoc(r, i, reqs[r].payload) IN
       IF AttendanceDocValid(d)
       THEN /\ attendance' = createAttendance(attendance, d)
            /\ reqs' = [reqs EXCEPT ![r] =
                           BulkSettle([@ EXCEPT !.pending = @ \ {i}],
                                      attendance', r)]
       ELSE /\ attendance' = attendance
            /\ reqs' = [reqs EXCEPT ![r] =
                           BulkSettle([@ EXCEPT !.pending = @ \ {i},
                                                !.failed = @ \cup {i}],
                                      attendance, r)]
    /\ UNCHANGED <<revision, client, classes, sections, now, profiles, fees, students, users, timetable>>

\* ------------------------------------------------------------ middleware
\* The routes registerRoutes declares, with their middleware chains and
\* the roles given to requireRole: server/routes.ts.
RoutesTs ==
    {[route |-> "POST /api/auth/register",
      chain |-> <<>>, roles |-> {}],
     [route |-> "POST /api/auth/login",
      chain |-> <<>>, roles |-> {}],
     [route |-> "GET /api/auth/me",
      chain |-> <<"authenticateToken">>, roles |-> {}],
     [route |-> "GET /api/users",
      chain |-> <<"authenticateToken", "requireRole">>, roles |-> {"admin"}],
     [route |-> "GET /api/users/role/:role",
      chain |-> <<"authenticateToken", "requireRole">>, roles |-> {"admin"}],
     [route |-> "POST /api/classes",
      chain |-> <<"authenticateToken", "requireRole">>, roles |-> {"admin"}],
     [route |-> "GET /api/classes",
      chain |-> <<"authenticateToken">>, roles |-> {}],
     [route |-> "GET /api/classes/:id",
      chain |-> <<"authenticateToken">>, roles |-> {}],
     [route |-> "PATCH /api/classes/:id",
      chain |-> <<"authenticateToken", "requireRole">>, roles |-> {"admin"}],
     [route |-> "DELETE /api/classes/:id",
      chain |-> <<"authenticateToken", "requireRole">>, roles |-> {"admin"}],
     [route |-> "POST /api/sections",
      chain |-> <<"authenticateToken", "requireRole">>, roles |-> {"admin"}],
     [route |-> "GET /api/sections",
      chain |-> <<"authenticateToken">>, roles |-> {}],
     [route |-> "GET /api/classes/:classId/sections",
      chain |-> <<"authenticateToken">>, roles |-> {}],
     [route |-> "PATCH /api/sections/:id",
      chain |-> <<"authenticateToken", "requireRole">>, roles |-> {"admin"}],
     [route |-> "DELETE /api/sections/:id",
      chain |-> <<"authenticateToken", "requireRole">>, roles |-> {"admin"}],
     [route |-> "POST /api/students",
      chain |-> <<"authenticateToken", "requireRole">>, roles |-> {"admin"}],
     [route |-> "GET /api/students",
      chain |-> <<"authenticateToken">>, roles |-> {}],
     [route |-> "GET /api/students/me",
      chain |-> <<"authenticateToken", "requireRole">>, roles |-> {"student"}],
     [route |-> "GET /api/students/:id",
      chain |-> <<"authenticateToken">>, roles |-> {}],
     [route |-> "GET /api/sections/:sectionId/students",
      chain |-> <<"authenticateToken">>, roles |-> {}],
     [route |-> "PATCH /api/students/:id",
      chain |-> <<"authenticateToken", "requireRole">>, roles |-> {"admin"}],
     [route |-> "DELETE /api/students/:id",
      chain |-> <<"authenticateToken", "requireRole">>, roles |-> {"admin"}],
     [route |-> "POST /api/attendance",
      chain |-> <<"authenticateToken", "requireRole">>, roles |-> {"admin", "teacher"}],
     [route |-> "POST /api/attendance/bulk",
      chain |-> <<"authenticateToken", "requireRole">>, roles |-> {"admin", "teacher"}],
     [route |-> "GET /api/attendance",
      chain |-> <<"authenticateToken">>, roles |-> {}],
     [route |-> "GET /api/students/:studentId/attendance",
      chain |-> <<"authenticateToken">>, roles |-> {}],
     [route |-> "GET /api/analytics/dashboard",
      chain |-> <<"authenticateToken", "requireRole">>, roles |-> {"admin"}],
     [route |-> "GET /api/analytics",
      chain |-> <<"authenticateToken", "requireRole">>, roles |-> {"admin"}],
     [route |-> "GET /api/teachers",
      chain |-> <<"authenticateToken", "requireRole">>, roles |-> {"admin"}],
     [route |-> "POST /api/teachers",
      chain |-> <<"authenticateToken", "requireRole">>, roles |-> {"admin"}],
     [route |-> "POST /api/timetable",
      chain |-> <<"authenticateToken", "requireRole">>, roles |-> {"admin"}],
     [route |-> "GET /api/timetable/teacher/:teacherId",
      chain |-> <<"authenticateToken">>, roles |-> {}],
     [route |-> "GET /api/timetable/class/:classId",
      chain |-> <<"authenticateToken">>, roles |-> {}],
     [route |-> "GET /api/fees",
      chain |-> <<"authenticateToken", "requireRole">>, roles |-> {"admin"}],
     [route |-> "GET /api/fees/student/:studentId",
      chain |-> <<"authenticateToken">>, roles |-> {}],
     [route |-> "GET /api/timetable/substitutes",
      chain |-> <<"authenticateToken">>, roles |-> {}]}

\* The routes the other revision (part_007) declares.
RoutesPart007 ==
    {[route |-> "POST /api/auth/register",
      chain |-> <<>>, roles |-> {}],
     [route |-> "POST /api/auth/login",
      chain |-> <<>>, roles |-> {}],
     [route |-> "GET /api/auth/me",
      chain |-> <<"authenticateToken">>, roles |-> {}],
     [route |-> "GET /api/users",
      chain |-> <<"authenticateToken", "requireRole">>, roles |-> {"admin"}],
     [route |-> "GET /api/users/role/:role",
      chain |-> <<"authenticateToken", "requireRole">>, roles |-> {"admin"}],
     [route |-> "POST /api/classes",
      chain |-> <<"authenticateToken", "requireRole">>, roles |-> {"admin"}],
     [route |-> "GET /api/classes",
      chain |-> <<"authenticateToken">>, roles |-> {}],
     [route |-> "GET /api/classes/:id",
      chain |-> <<"authenticateToken">>, roles |-> {}],
     [route |-> "PATCH /api/classes/:id",
      chain |-> <<"authenticateToken", "requireRole">>, roles |-> {"admin"}],
     [route |-> "DELETE /api/classes/:id",
      chain |-> <<"authenticateToken", "requireRole">>, roles |-> {"admin"}],
     [route |-> "POST /api/sections",
      chain |-> <<"authenticateToken", "requireRole">>, roles |-> {"admin"}],
     [route |-> "GET /api/classes/:classId/sections",
      chain |-> <<"authenticateToken">>, roles |-> {}],
     [route |-> "PATCH /api/sections/:id",
      chain |-> <<"authenticateToken", "requireRole">>, roles |-> {"admin"}],
     [route |-> "DELETE /api/sections/:id",
      chain |-> <<"authenticateToken", "requireRole">>, roles |-> {"admin"}],
     [route |-> "POST /api/students",
      chain |-> <<"authenticateToken", "requireRole">>, roles |-> {"admin"}],
     [route |-> "GET /api/students",
      chain |-> <<"authenticateToken">>, roles |-> {}],
     [route |-> "GET /api/students/:id",
      chain |-> <<"authenticateToken">>, roles |-> {}],
     [route |-> "GET /api/sections/:sectionId/students",
      chain |-> <<"authenticateToken">>, roles |-> {}],
     [route |-> "PATCH /api/students/:id",
      chain |-> <<"authenticateToken", "requireRole">>, roles |-> {"admin"}],
     [route |-> "DELETE /api/students/:id",
      chain |-> <<"authenticateToken", "requireRole">>, roles |-> {"admin"}],
     [route |-> "POST /api/attendance",
      chain |-> <<"authenticateToken", "requireRole">>, roles |-> {"admin", "teacher"}],
     [route |-> "POST /api/attendance/bulk",
      chain |-> <<"authenticateToken", "requireRole">>, roles |-> {"admin", "teacher"}],
     [route |-> "GET /api/attendance",
      chain |-> <<"authenticateToken">>, roles |-> {}],
     [route |-> "GET /api/students/:studentId/attendance",
      chain |-> <<"authenticateToken">>, roles |-> {}],
     [route |-> "POST /api/assignments",
      chain |-> <<"authenticateToken", "requireRole">>, roles |-> {"admin", "teacher"}],
     [route |-> "GET /api/assignments",
      chain |-> <<"authenticateToken">>, roles |-> {}],
     [route |-> "GET /api/assignments/:id",
      chain |-> <<"authenticateToken">>, roles |-> {}],
     [route |-> "PATCH /api/assignments/:id",
      chain |-> <<"authenticateToken", "requireRole">>, roles |-> {"admin", "teacher"}],
     [route |-> "DELETE /api/assignments/:id",
      chain |-> <<"authenticateToken", "requireRole">>, roles |-> {"admin", "teacher"}],
     [route |-> "POST /api/submissions",
      chain |-> <<"authenticateToken", "requireRole">>, roles |-> {"student"}],
     [route |-> "GET /api/assignments/:assignmentId/submissions",
      chain |-> <<"authenticateToken">>, roles |-> {}],
     [route |-> "GET /api/students/:studentId/submissions",
      chain |-> <<"authenticateToken">>, roles |-> {}],
     [route |-> "PATCH /api/submissions/:id/grade",
      chain |-> <<"authenticateToken", "requireRole">>, roles |-> {"admin", "teacher"}],
     [route |-> "POST /api/fees",
      chain |-> <<"authenticateToken", "requireRole">>, roles |-> {"admin"}],
     [route |-> "GET /api/fees",
      chain |-> <<"authenticateToken", "requireRole">>, roles |-> {"admin"}],
     [route |-> "GET /api/students/:studentId/fees",
      chain |-> <<"authenticateToken">>, roles |-> {}],
     [route |-> "PATCH /api/fees/:id/pay",
      chain |-> <<"authenticateToken", "requireRole">>, roles |-> {"admin"}],
     [route |-> "POST /api/teachers/:id/pay-salary",
      chain |-> <<"authenticateToken", "requireRole">>, roles |-> {"admin"}],
     [route |-> "POST /api/timetable",
      chain |-> <<"authenticateToken", "requireRole">>, roles |-> {"admin"}],
     [route |-> "GET /api/timetable/class/:classId/section/:sectionId",
      chain |-> <<"authenticateToken">>, roles |-> {}],
     [route |-> "GET /api/timetable/teacher/:teacherId",
      chain |-> <<"authenticateToken">>, roles |-> {}],
     [route |-> "DELETE /api/timetable/:id",
      chain |-> <<"authenticateToken", "requireRole">>, roles |-> {"admin"}],
     [route |-> "GET /api/analytics",
      chain |-> <<"authenticateToken", "requireRole">>, roles |-> {"admin"}],
     [route |-> "GET /api/teachers",
      chain |-> <<"authenticateToken", "requireRole">>, roles |-> {"admin"}],
     [route |-> "POST /api/teachers",
      chain |-> <<"authenticateToken", "requireRole">>, roles |-> {"admin"}],
     [route |-> "PATCH /api/teachers/:id",
      chain |-> <<"authenticateToken", "requireRole">>, roles |-> {"admin"}]}

\* Mutant: the role check is declared before the authentication.
ServerRoutes_RoleFirst(rev) ==
    {[rt EXCEPT !.chain = IF Len(@) = 2 THEN <<@[2], @[1]>> ELSE @] :
        rt \in IF rev = "routes.ts" THEN RoutesTs ELSE RoutesPart007}

\* The routes of the running revision.
ServerRoutes(rev) == IF rev = "routes.ts" THEN RoutesTs ELSE RoutesPart007

\* Mutant: the expiry is not checked.
jwtVerify_IgnoresExpiry(tok, t) == tok.key = "JWT_SECRET"

\* jwt.verify(token, JWT_SECRET) at time t: the signature, then the expiry.
jwtVerify(tok, t) == tok.key = "JWT_SECRET" /\ t < tok.exp

\* The payload jwt.verify hands to its callback.
decoded(tok) ==
    [id |-> tok.id, role |-> tok.role, email |-> tok.email,
     iat |-> tok.iat, exp |-> tok.exp]

\* authHeader && authHeader.split(" ")[1]
bearerToken(authorization) ==
    IF Len(authorization) >= 2 THEN {authorization[2]} ELSE {}

\* The middleware or handler `name` is entered.
Ran(req, name) == [req EXCEPT !.ran = Append(@, name)]

\* Mutant: a token that fails verification is decoded and let through.
authenticateToken_FailsOpen(req, t) ==
    LET token == bearerToken(req.authorization)
        entered == Ran(req, "authenticateToken") IN
    IF token = {}
    THEN Answer(entered, Unauthorized, "Access token required")
    ELSE [entered EXCEPT !.reqUser = {decoded(tok) : tok \in token}]

\* authenticateToken at time t: answers, or attaches req.user for next().
authenticateToken(req, t) ==
    LET token == bearerToken(req.authorization)
        entered == Ran(req, "authenticateToken") IN
    IF token = {}
    THEN Answer(entered, Unauthorized, "Access token required")
    ELSE IF \E tok \in token : ~jwtVerify(tok, t)
    THEN Answer(entered, Forbidden, "Invalid or expired token")
    ELSE [entered EXCEPT !.reqUser = {decoded(tok) : tok \in token}]

\* Mutant: any authenticated user passes.
requireRole_AnyUser(roles, req) ==
    LET entered == Ran(req, "requireRole") IN
    IF entered.reqUser = {}
    THEN Answer(entered, Forbidden, "Insufficient permissions")
    ELSE entered

\* requireRole(...roles): answers, or calls next().
requireRole(roles, req) ==
    LET entered == Ran(req, "requireRole") IN
    IF entered.reqUser = {} \/ \A u \in entered.reqUser : u.role \notin roles
    THEN Answer(entered, Forbidden, "Insufficient permissions")
    ELSE entered

\* Express runs the chain of a route in the order it is declared; a
\* middleware that answers ends it.
RECURSIVE runChain(_, _, _, _)
runChain(rt, i, req, t) ==
    IF i > Len(rt.chain) THEN req
    ELSE LET after == IF rt.chain[i] = "authenticateToken"
                      THEN authenticateToken(req, t)
                      ELSE requireRole(rt.roles, req) IN
         IF after.pc = "done" THEN after ELSE runChain(rt, i + 1, after, t)

\* ------------------------------------------------------------------ fees
\* insertAttendanceSchema.safeParse(req.body).success
insertAttendanceSchema(p) == p.status \in AttendanceStatus

\* insertFeeSchema.safeParse(req.body).success
insertFeeSchema(p) == p.amount > 0 /\ p.status \in FeeStatus \cup {Absent}

\* insertFeeSchema.safeParse(req.body).data: status defaults to "Pending".
insertFeeData(p) == [p EXCEPT !.status = IF @ = Absent THEN "Pending" ELSE @]

\* The document FeeModel.create stores for request r: no paidDate.
FeeDoc(r, data) ==
    [id |-> r, studentId |-> data.studentId, amount |-> data.amount,
     period |-> data.period, dueDate |-> data.dueDate,
     status |-> data.status, paidDate |-> {}]

\* FeeSchema: what FeeModel.create validates.
FeeDocValid(d) ==
    /\ d.studentId # "" /\ d.period # "" /\ d.dueDate # ""
    /\ d.status \in FeeStatus

\* Mutant: the paid-date is not written.
updateFeeStatus_NoDate(fs, id, status, paidDate) ==
    {IF f.id = id THEN [f EXCEPT !.status = status] ELSE f : f \in fs}

\* storage.updateFeeStatus: findByIdAndUpdate(id, {status, paidDate}).
updateFeeStatus(fs, id, status, paidDate) ==
    {IF f.id = id
     THEN [f EXCEPT !.status = status, !.paidDate = {paidDate}]
     ELSE f : f \in fs}

\* new Date(now.getFullYear(), now.getMonth(), 1)
startOfMonth(t) == t - (t % MonthLength)

\* fees.reduce((sum, fee) => sum + fee.amount, 0)
RECURSIVE SumAmounts(_)
SumAmounts(fs) ==
    IF fs = {} THEN 0
    ELSE LET f == CHOOSE x \in fs : TRUE IN f.amount + SumAmounts(fs \ {f})

\* Mutant: every Cleared fee is counted, whenever it was paid.
FeesClearedSince_AnyDate(fs, start) == {f \in fs : f.status = "Cleared"}

\* FeeModel.find({ status: "Cleared", paidDate: { $gte: startOfMonth } })
FeesClearedSince(fs, start) ==
    {f \in fs : f.status = "Cleared" /\ \E d \in f.paidDate : d >= start}

\* storage.getMonthlyRevenue called at time t on the fees fs.
getMonthlyRevenue(fs, t) == SumAmounts(FeesClearedSince(fs, startOfMonth(t)))

\* JavaScript numbers are IEEE 754 doubles: a significand of 53 binary
\* digits, every operation rounded to nearest, ties to even.  A double
\* x > 0 is kept as [m, exp] with the value M * 2^exp, where M is the
\* significand as an integer of SignificandBits digits, written in three
\* limbs of 20 binary digits, the most significant first.
RECURSIVE BinaryOf(_)
BinaryOf(k) == IF k = 0 THEN <<>> ELSE Append(BinaryOf(k \div 2), k % 2)

\* The zeros between the binary point and the first 1 of r/n, 0 < r < n.
RECURSIVE LeadingZeros(_, _)
LeadingZeros(r, n) == IF 2 * r >= n THEN 0 ELSE 1 + LeadingZeros(2 * r, n)

RECURSIVE Power2(_)
Power2(k) == IF k = 0 THEN 1 ELSE 2 * Power2(k - 1)

Limb == Power2(20)

\* p * 2^k in limbs, for p * 2^k < Limb^3.
Shifted(p, k) ==
    LET v == p * Power2(k % 20)
        limb(i) == IF i = k \div 20 THEN v % Limb
                   ELSE IF i = k \div 20 + 1 THEN v \div Limb
                   ELSE 0 IN
    <<limb(2), limb(1), limb(0)>>

\* m + 1 in limbs.
PlusOne(m) ==
    IF m[3] + 1 < Limb THEN <<m[1], m[2], m[3] + 1>>
    ELSE IF m[2] + 1 < Limb THEN <<m[1], m[2] + 1, 0>>
    ELSE <<m[1] + 1, 0, 0>>

\* The double for the significand m, rounded up or down, and exp: a
\* significand that reaches 2^SignificandBits is renormalised.
RoundToDouble(m, up, exp) ==
    LET r == IF up THEN PlusOne(m) ELSE m IN
    IF r[1] = Power2(SignificandBits - 40)
    THEN [m |-> <<Power2(SignificandBits - 41), 0, 0>>, exp |-> exp + 1]
    ELSE [m |-> r, exp |-> exp]

\* p / n in double arithmetic, for integers p >= 1, n >= 1: with
\* 2^(t-1) <= p/n < 2^t, the significand is p * 2^(53-t) / n rounded, by
\* long division over the limbs.
doubleDivide(p, n) ==
    LET t == IF p >= n THEN Len(BinaryOf(p \div n))
             ELSE 0 - LeadingZeros(p, n)
        x == Shifted(p, SignificandBits - t)
        q1 == x[1] \div n
        r1 == x[1] % n
        q2 == (r1 * Limb + x[2]) \div n
        r2 == (r1 * Limb + x[2]) % n
        q3 == (r2 * Limb + x[3]) \div n
        r3 == (r2 * Limb + x[3]) % n
        up == 2 * r3 > n \/ (2 * r3 = n /\ q3 % 2 = 1) IN
    RoundToDouble(<<q1, q2, q3>>, up, t - SignificandBits)

\* x * k in double arithmetic, for a double x and an integer k of seven
\* binary digits (64 <= k < 128): the exact product has 6 or 7 digits more
\* than a significand, which are rounded away.
doubleTimes(x, k) ==
    LET c3 == k * x.m[3]
        c2 == k * x.m[2] + c3 \div Limb
        c1 == k * x.m[1] + c2 \div Limb
        p == <<c1, c2 % Limb, c3 % Limb>>
        d == IF c1 >= Power2(19) THEN 7 ELSE 6
        cut == Power2(d)
        keep == Power2(20 - d)
        m == <<p[1] \div cut,
               p[2] \div cut + (p[1] % cut) * keep,
               p[3] \div cut + (p[2] % cut) * keep>>
        low == p[3] % cut
        up == 2 * low > cut \/ (2 * low = cut /\ m[3] % 2 = 1) IN
    RoundToDouble(m, up, x.exp + d)

\* Digit i (0 the least significant) of the significand m.
Bit(m, i) == (m[3 - i \div 20] \div Power2(i % 20)) % 2

\* Math.round of a double 0 < x < 2^13: the integer part, plus one when
\* the fraction is a half or more.
mathRound(x) ==
    LET s == 0 - x.exp IN
    (IF s >= SignificandBits THEN 0 ELSE x.m[1] \div Power2(s - 40))
      + (IF s > SignificandBits THEN 0 ELSE Bit(x.m, s - 1))

\* Math.round((presentCount / students.length) * 100)
roundedPercent(presentCount, n) ==
    IF presentCount = 0 THEN 0
    ELSE mathRound(doubleTimes(doubleDivide(presentCount, n), 100))

\* ---------------------------------------------------- authenticated routes
\* The two dashboard routes: the same four store calls.
AnalyticsRoutes == {"GET /api/analytics", "GET /api/analytics/dashboard"}

\* ------------------------------------------------- classes and students
\* insertClassSchema.safeParse(req.body).success
insertClassSchema(p) == Len(p.name) >= 1 /\ Len(p.subjects) >= 1

\* ClassModel.create(classData)
ClassDoc(r, p) == [id |-> r, name |-> p.name, subjects |-> p.subjects]

\* storage.updateClass: ClassModel.findByIdAndUpdate(id, classData); the
\* update runs no validators.
updateClass(cs, id, classData) ==
    {IF c.id = id
     THEN [c EXCEPT !.name = Updated(@, classData.name),
                    !.subjects = Updated(@, classData.subjects)]
     ELSE c : c \in cs}

\* storage.deleteClass: ClassModel.findByIdAndDelete(id)
deleteClass(cs, id) == {c \in cs : c.id # id}

\* storage.deleteStudent: StudentModel.findByIdAndDelete(id)
deleteStudent(ss, id) == {x \in ss : x.id # id}

\* insertStudentSchema.safeParse(req.body).success
insertStudentSchema(p) == p.admissionNumber # {}

\* StudentModel.create(studentData)
StudentDoc(r, p) ==
    [id |-> r, userId |-> p.userId,
     admissionNumber |-> CHOOSE a \in p.admissionNumber : TRUE,
     rollNumber |-> p.rollNumber, classId |-> p.classId,
     sectionId |-> p.sectionId, guardianName |-> p.guardianName,
     guardianContact |-> p.guardianContact]

\* StudentSchema: admissionNumber unique; StudentModel.create throws.
StudentDuplicateKey(ss, d) ==
    \E x \in ss : x.admissionNumber = d.admissionNumber

\* !value of a body field: undefined and "" are falsy for a string,
\* undefined and 0 for a number.
FalsyString(field) == field = {} \/ field = {""}

FalsyNumber(field) == field = {} \/ field = {0}

\* The handler of a route is entered: up to its first store call.
handlerStart(req, t) ==
    LET h == Ran(req, "handler") IN
    IF h.route = "POST /api/attendance"
    THEN IF insertAttendanceSchema(h.payload)
         THEN [h EXCEPT !.pc = "createAttendance"]
         ELSE Answer(h, BadRequest, "Validation failed")
    ELSE IF h.route = "POST /api/fees"
    THEN IF insertFeeSchema(h.payload)
         THEN [h EXCEPT !.pc = "createFee"]
         ELSE Answer(h, BadRequest, "Validation failed")
    ELSE IF h.route = "PATCH /api/fees/:id/pay"
    THEN [h EXCEPT !.pc = "updateFeeStatus", !.newDate = {t}]
    ELSE IF h.route \in AnalyticsRoutes
    THEN [h EXCEPT !.pc = "getAllStudents"]
    ELSE IF h.route = "POST /api/teachers/:id/pay-salary"
    THEN IF FalsyString(h.payload.month) \/ FalsyNumber(h.payload.amount)
         THEN Answer(h, BadRequest, "Month and amount are required")
         ELSE [h EXCEPT !.pc = "paySalary", !.newDate = {t}]
    ELSE IF h.route = "PATCH /api/teachers/:id"
    THEN [h EXCEPT !.pc = "updateTeacherProfile"]
    ELSE IF h.route = "POST /api/classes"
    THEN IF insertClassSchema(h.payload)
         THEN [h EXCEPT !.pc = "createClass"]
         ELSE Answer(h, BadRequest, "Validation failed")
    ELSE IF h.route = "PATCH /api/classes/:id"
    THEN [h EXCEPT !.pc = "updateClass"]
    ELSE IF h.route = "DELETE /api/classes/:id"
    THEN [h EXCEPT !.pc = "deleteClass"]
    ELSE IF h.route = "POST /api/students"
    THEN IF insertStudentSchema(h.payload)
         THEN [h EXCEPT !.pc = "createStudent"]
         ELSE Answer(h, BadRequest, "Validation failed")
    ELSE IF h.route = "GET /api/students"
    THEN [h EXCEPT !.pc = "getAllStudents"]
    ELSE IF h.route = "DELETE /api/students/:id"
    THEN [h EXCEPT !.pc = "deleteStudent"]
    ELSE [h EXCEPT !.pc = "getUser"]

\* A request to a route of the running revision arrives: its chain runs,
\* then its handler up to the first store call.
Arrival(r, rt, authorization, body) ==
    /\ rt \in ServerRoutes(revision)
    /\ Arrives(r)
    /\ LET req == [kind |-> "access", route |-> rt.route,
                   authorization |-> authorization, payload |-> body,
                   pc |-> "chain", status |-> 0, message |-> "",
                   reqUser |-> {}, ran |-> <<>>, newDate |-> {},
                   body |-> {}]
           passed == runChain(rt, 1, req, now) IN
       reqs' = [reqs EXCEPT ![r] =
                   IF passed.pc = "done" THEN passed
                   ELSE handlerStart(passed, now)]

\* A request of any sender arrives.
Access(r, rt, authorization, body) ==
    /\ Arrival(r, rt, authorization, body)
    /\ UNCHANGED <<revision, client, classes, sections, now, profiles, fees, students, users, timetable, attendance>>

AtCall(r, route, pc) ==
    /\ reqs[r] # Idle /\ reqs[r].kind = "access"
    /\ reqs[r].route = route /\ reqs[r].pc = pc

\* GET /api/auth/me: storage.getUser returns.
MeGetUser(r) ==
    /\ AtCall(r, "GET /api/auth/me", "getUser")
    /\ LET found == {u \in users : \E v \in reqs[r].reqUser : u.id = v.id} IN
       reqs' = [reqs EXCEPT ![r] =
                   IF found = {} THEN Answer(@, NotFound, "User not found")
                   ELSE [Answer(@, Ok, "") EXCEPT
                            !.body = {userWithoutPassword(u) : u \in found}]]
    /\ UNCHANGED <<revision, client, classes, sections, now, profiles, fees, students, users, timetable, attendance>>

\* POST /api/attendance: storage.createAttendance returns or throws.
AttendanceCreate(r) ==
    /\ AtCall(r, "POST /api/attendance", "createAttendance")
    /\ LET p == reqs[r].payload
           d == [id |-> <<r, 0>>, date |-> p.date, studentId |-> p.studentId,
                 classId |-> p.classId, sectionId |-> p.sectionId,
                 status |-> p.status] IN
       IF AttendanceDocValid(d)
       THEN /\ attendance' = createAttendance(attendance, d)
            /\ reqs' = [reqs EXCEPT ![r] =
                           [Answer(@, Created, "created") EXCEPT !.body = {d}]]
       ELSE /\ UNCHANGED attendance
            /\ reqs' = [reqs EXCEPT ![r] =
                           Answer(@, Internal, "Internal server error")]
    /\ UNCHANGED <<revision, client, classes, sections, now, profiles, fees, students, users, timetable>>

\* POST /api/fees: storage.createFee returns or throws.
FeeCreate(r) ==
    /\ AtCall(r, "POST /api/fees", "createFee")
    /\ LET d == FeeDoc(r, insertFeeData(reqs[r].payload)) IN
       IF FeeDocValid(d)
       THEN /\ fees' = fees \cup {d}
            /\ reqs' = [reqs EXCEPT ![r] =
                           [Answer(@, Created, "created") EXCEPT !.body = {d}]]
       ELSE /\ UNCHANGED fees
            /\ reqs' = [reqs EXCEPT ![r] =
                           Answer(@, Internal, "Internal server error")]
    /\ UNCHANGED <<revision, client, classes, sections, now, profiles, students, users, timetable, attendance>>

\* PATCH /api/fees/:id/pay: storage.updateFeeStatus(id, "Cleared",
\* new Date()) returns the updated fee or undefined.
FeePay(r) ==
    /\ AtCall(r, "PATCH /api/fees/:id/pay", "updateFeeStatus")
    /\ \E paidDate \in reqs[r].newDate :
          /\ fees' = updateFeeStatus(fees, reqs[r].payload.id, "Cleared",
                                     paidDate)
          /\ LET updated == {f \in fees' : f.id = reqs[r].payload.id} IN
             reqs' = [reqs EXCEPT ![r] =
                         IF updated = {}
                         THEN Answer(@, NotFound, "Fee record not found")
                         ELSE [Answer(@, Ok, "") EXCEPT !.body = updated]]
    /\ UNCHANGED <<revision, client, classes, sections, now, profiles, students, users, timetable, attendance>>

AtAnalytics(r, pc) == \E route \in AnalyticsRoutes : AtCall(r, route, pc)

\* GET /api/analytics: storage.getAllStudents returns.
AnalyticsStudents(r) ==
    /\ AtAnalytics(r, "getAllStudents")
    /\ reqs' = [reqs EXCEPT ![r] =
                   [@ EXCEPT !.pc = "getUsersByRole",
                             !.body = {[totalStudents |->
                                           Cardinality(students)]}]]
    /\ UNCHANGED <<revision, client, classes, sections, now, profiles, fees, students, users, timetable, attendance>>

\* GET /api/analytics: storage.getUsersByRole("teacher") returns;
\* getMonthlyRevenue is called and computes startOfMonth.
AnalyticsTeachers(r) ==
    /\ AtAnalytics(r, "getUsersByRole")
    /\ reqs' = [reqs EXCEPT ![r] =
                   [@ EXCEPT !.pc = "getMonthlyRevenue", !.newDate = {now},
                             !.body = {[totalStudents |-> b.totalStudents,
                                        totalTeachers |->
                                           Cardinality(teacherUsers(users))] :
                                          b \in @}]]
    /\ UNCHANGED <<revision, client, classes, sections, now, profiles, fees, students, users, timetable, attendance>>

\* GET /api/analytics: the fee query of getMonthlyRevenue returns;
\* getTodayAttendancePercentage is called and computes today.
AnalyticsRevenue(r) ==
    /\ AtAnalytics(r, "getMonthlyRevenue")
    /\ \E called \in reqs[r].newDate :
          reqs' = [reqs EXCEPT ![r] =
                      [@ EXCEPT !.pc = "getTodayAttendance",
                                !.newDate = {now},
                                !.body = {[totalStudents |-> b.totalStudents,
                                           totalTeachers |-> b.totalTeachers,
                                           monthlyRevenue |->
                                              getMonthlyRevenue(fees, called),
                                           revenueAsOf |-> called] :
                                             b \in @}]]
    /\ UNCHANGED <<revision, client, classes, sections, now, profiles, fees, students, users, timetable, attendance>>

\* The answer of the dashboard routes; attendanceAsOf is the time at which
\* getTodayAttendancePercentage took `today`.  /api/analytics/dashboard
\* adds the two trend series.
AnalyticsAnswer(req, todayAttendance) ==
    [Answer(req, Ok, "") EXCEPT
        !.body = {IF req.route = "GET /api/analytics"
                  THEN [totalStudents |-> b.totalStudents,
                        totalTeachers |-> b.totalTeachers,
                        monthlyRevenue |-> b.monthlyRevenue,
                        revenueAsOf |-> b.revenueAsOf,
                        todayAttendance |-> todayAttendance,
                        attendanceAsOf |-> req.newDate]
                  ELSE [totalStudents |-> b.totalStudents,
                        totalTeachers |-> b.totalTeachers,
                        monthlyRevenue |-> b.monthlyRevenue,
                        revenueAsOf |-> b.revenueAsOf,
                        todayAttendance |-> todayAttendance,
                        attendanceAsOf |-> req.newDate,
                        revenueTrend |-> <<b.monthlyRevenue, 0, 0>>,
                        attendanceTrend |-> <<todayAttendance, 0, 0, 0, 0>>] :
                    b \in @}]

\* GET /api/analytics: the student query of getTodayAttendancePercentage
\* returns: 0 without students, else the count is issued.
AnalyticsToday(r) ==
    /\ AtAnalytics(r, "getTodayAttendance")
    /\ reqs' = [reqs EXCEPT ![r] =
                   IF Cardinality(students) = 0
                   THEN AnalyticsAnswer(@, 0)
                   ELSE [@ EXCEPT !.pc = "countDocuments",
                                  !.payload = Cardinality(students)]]
    /\ UNCHANGED <<revision, client, classes, sections, now, profiles, fees, students, users, timetable, attendance>>

\* GET /api/analytics: countDocuments({date: today, status: "Present"})
\* returns.
AnalyticsCount(r) ==
    /\ AtAnalytics(r, "countDocuments")
    /\ \E called \in reqs[r].newDate :
          LET presentCount ==
                 Cardinality({a \in attendance : /\ a.date = isoDate(called)
                                                  /\ a.status = "Present"}) IN
          reqs' = [reqs EXCEPT ![r] =
                      AnalyticsAnswer(@, roundedPercent(presentCount,
                                                        reqs[r].payload))]
    /\ UNCHANGED <<revision, client, classes, sections, now, profiles, fees, students, users, timetable, attendance>>

\* POST /api/teachers/:id/pay-salary: storage.paySalary returns the
\* updated profile or undefined.
SalaryPay(r) ==
    /\ AtCall(r, "POST /api/teachers/:id/pay-salary", "paySalary")
    /\ \E month \in reqs[r].payload.month, amount \in reqs[r].payload.amount,
          paidDate \in reqs[r].newDate :
          /\ profiles' = paySalary(profiles, reqs[r].payload.id, month, amount,
                                   paidDate)
          /\ LET updated == {x \in profiles' : x.userId = reqs[r].payload.id} IN
             reqs' = [reqs EXCEPT ![r] =
                         IF updated = {}
                         THEN Answer(@, NotFound, "Teacher profile not found")
                         ELSE [Answer(@, Ok, "") EXCEPT !.body = updated]]
    /\ UNCHANGED <<revision, client, classes, sections, now, fees, students, users, timetable, attendance>>

\* PATCH /api/teachers/:id: storage.updateTeacherProfile returns the
\* updated profile or undefined.
TeacherUpdate(r) ==
    /\ AtCall(r, "PATCH /api/teachers/:id", "updateTeacherProfile")
    /\ profiles' = updateTeacherProfile(profiles, reqs[r].payload.id,
                                        reqs[r].payload)
    /\ LET updated == {x \in profiles' : x.userId = reqs[r].payload.id} IN
       reqs' = [reqs EXCEPT ![r] =
                   IF updated = {}
                   THEN Answer(@, NotFound, "Teacher profile not found")
                   ELSE [Answer(@, Ok, "") EXCEPT !.body = updated]]
    /\ UNCHANGED <<revision, client, classes, sections, now, fees, students, users, timetable, attendance>>

\* POST /api/classes: storage.createClass returns.
ClassCreate(r) ==
    /\ AtCall(r, "POST /api/classes", "createClass")
    /\ LET d == ClassDoc(r, reqs[r].payload) IN
       /\ classes' = classes \cup {d}
       /\ reqs' = [reqs EXCEPT ![r] =
                      [Answer(@, Created, "created") EXCEPT !.body = {d}]]
    /\ UNCHANGED <<revision, client, sections, now, profiles, fees, students, users, timetable, attendance>>

\* PATCH /api/classes/:id: storage.updateClass returns the updated class or
\* undefined.
ClassUpdate(r) ==
    /\ AtCall(r, "PATCH /api/classes/:id", "updateClass")
    /\ classes' = updateClass(classes, reqs[r].payload.id, reqs[r].payload)
    /\ LET updated == {c \in classes' : c.id = reqs[r].payload.id} IN
       reqs' = [reqs EXCEPT ![r] =
                   IF updated = {} THEN Answer(@, NotFound, "Class not found")
                   ELSE [Answer(@, Ok, "") EXCEPT !.body = updated]]
    /\ UNCHANGED <<revision, client, sections, now, profiles, fees, students, users, timetable, attendance>>

\* Mutant: deleting a class deletes its sections and students with it.
ClassDelete_Cascade(r) ==
    /\ AtCall(r, "DELETE /api/classes/:id", "deleteClass")
    /\ classes' = deleteClass(classes, reqs[r].payload.id)
    /\ sections' = {x \in sections : x.classId # reqs[r].payload.id}
    /\ students' = {x \in students : x.classId # reqs[r].payload.id}
    /\ reqs' = [reqs EXCEPT ![r] =
                   IF classes' = classes
                   THEN Answer(@, NotFound, "Class not found")
                   ELSE Answer(@, NoContent, "")]
    /\ UNCHANGED <<revision, client, now, profiles, fees, users, timetable, attendance>>

\* DELETE /api/classes/:id: storage.deleteClass returns whether a class was
\* deleted.
ClassDelete(r) ==
    /\ AtCall(r, "DELETE /api/classes/:id", "deleteClass")
    /\ classes' = deleteClass(classes, reqs[r].payload.id)
    /\ reqs' = [reqs EXCEPT ![r] =
                   IF classes' = classes
                   THEN Answer(@, NotFound, "Class not found")
                   ELSE Answer(@, NoContent, "")]
    /\ UNCHANGED <<revision, client, sections, now, profiles, fees, students, users, timetable, attendance>>

\* POST /api/students: storage.createStudent returns or throws.
StudentCreate(r) ==
    /\ AtCall(r, "POST /api/students", "createStudent")
    /\ LET d == StudentDoc(r, reqs[r].payload) IN
       IF StudentDuplicateKey(students, d)
       THEN /\ UNCHANGED students
            /\ reqs' = [reqs EXCEPT ![r] =
                           Answer(@, Internal, "Internal server error")]
       ELSE /\ students' = students \cup {d}
            /\ reqs' = [reqs EXCEPT ![r] =
                           [Answer(@, Created, "created") EXCEPT !.body = {d}]]
    /\ UNCHANGED <<revision, client, classes, sections, now, profiles, fees, users, timetable, attendance>>

\* DELETE /api/students/:id: storage.deleteStudent returns whether a
\* student was deleted.
StudentDelete(r) ==
    /\ AtCall(r, "DELETE /api/students/:id", "deleteStudent")
    /\ students' = deleteStudent(students, reqs[r].payload.id)
    /\ reqs' = [reqs EXCEPT ![r] =
                   IF students' = students
                   THEN Answer(@, NotFound, "Student not found")
                   ELSE Answer(@, NoContent, "")]
    /\ UNCHANGED <<revision, client, classes, sections, now, profiles, fees, users, timetable, attendance>>

\* GET /api/students: storage.getAllStudents returns.
StudentList(r) ==
    /\ AtCall(r, "GET /api/students", "getAllStudents")
    /\ reqs' = [reqs EXCEPT ![r] = [Answer(@, Ok, "") EXCEPT !.body = students]]
    /\ UNCHANGED <<revision, client, classes, sections, now, profiles, fees, students, users, timetable, attendance>>

\* ------------------------------------------------- client: enrollment
\* res.ok: the status is in the range 200-299.
ResponseOk(req) == req.status >= 200 /\ req.status <= 299

\* handleSubmitAdd, 1: the form is submitted and the register request is
\* sent.
ClientSubmit(r, values) ==
    /\ client.pc = "idle"
    /\ RegArrival(r, [username |-> values.username,
                      password |-> values.password, role |-> "student",
                      name |-> values.name, email |-> values.email])
    /\ client' = [pc |-> "register", values |-> values, userRes |-> r,
                  studentRes |-> 0]
    /\ UNCHANGED <<revision, classes, sections, now, profiles, fees, students, users, timetable, attendance>>

\* Mutant: a failed registration is followed by the student request.
ClientRegisterFailed_Proceeds ==
    /\ client.pc = "register" /\ reqs[client.userRes].pc = "done"
    /\ ~ResponseOk(reqs[client.userRes])
    /\ \E r \in ReqIds, rt \in ServerRoutes(revision), u \in AccessStore :
          /\ rt.route = "POST /api/students" /\ u.role = "admin"
          /\ Arrival(r, rt, <<"Bearer", jwtSign(u, 0)>>,
                     [userId |-> 0,
                      admissionNumber |-> {client.values.admissionNumber},
                      rollNumber |-> "1", classId |-> 31, sectionId |-> 41,
                      guardianName |-> "G", guardianContact |-> "555"])
          /\ client' = [client EXCEPT !.pc = "student", !.studentRes = r]
    /\ UNCHANGED <<revision, classes, sections, now, profiles, fees, students, users, timetable, attendance>>

\* handleSubmitAdd, 2: the register response is not ok: the handler throws,
\* the catch block shows the message, and nothing else is sent.
ClientRegisterFailed ==
    /\ client.pc = "register" /\ reqs[client.userRes].pc = "done"
    /\ ~ResponseOk(reqs[client.userRes])
    /\ client' = ClientIdle
    /\ UNCHANGED <<revision, reqs, classes, sections, now, profiles, fees, students, users, timetable, attendance>>

\* handleSubmitAdd, 2: the register response is ok: createStudent.mutate
\* sends the student request with userData.user.id.
ClientCreateStudent(r, authorization) ==
    /\ client.pc = "register" /\ reqs[client.userRes].pc = "done"
    /\ ResponseOk(reqs[client.userRes])
    /\ \E user \in reqs[client.userRes].user, rt \in ServerRoutes(revision) :
          /\ rt.route = "POST /api/students"
          /\ Arrival(r, rt, authorization,
                     [userId |-> user.id,
                      admissionNumber |-> {client.values.admissionNumber},
                      rollNumber |-> "1", classId |-> 31, sectionId |-> 41,
                      guardianName |-> "G", guardianContact |-> "555"])
    /\ client' = [client EXCEPT !.pc = "student", !.studentRes = r]
    /\ UNCHANGED <<revision, classes, sections, now, profiles, fees, students, users, timetable, attendance>>

\* useCreateStudent: the student response arrives; onSuccess or onError
\* shows its message.
ClientSettled ==
    /\ client.pc = "student" /\ reqs[client.studentRes].pc = "done"
    /\ client' = ClientIdle
    /\ UNCHANGED <<revision, reqs, classes, sections, now, profiles, fees, students, users, timetable, attendance>>

\* A day passes on the server's clock, up to day `last`.
Tick(last) ==
    /\ now < last
    /\ now' = now + 1
    /\ UNCHANGED <<revision, client, classes, sections, profiles, fees, students, users, timetable, attendance, reqs>>

\* ------------------------------------------------------- specifications
InitTimetable ==
    /\ revision \in Revisions
    /\ users = {}
    /\ timetable = {}
    /\ attendance = {}
    /\ profiles = {}
    /\ fees = {}
    /\ students = {}
    /\ classes = {}
    /\ sections = {}
    /\ client = ClientIdle
    /\ now = 0
    /\ reqs = [r \in ReqIds |-> Idle]

NextTimetable ==
    \/ \E r \in ReqIds, p \in TimetablePayloads : TTReceive(r, p)
    \/ \E r \in ReqIds : TTCheck(r)
    \/ \E r \in ReqIds : TTInsert(r)
    \/ \E r \in ReqIds, p \in TimetablePayloads : TTCreateDirect(r, p)
    \/ \E r \in ReqIds, id \in ReqIds : TTDelete(r, id)

SpecTimetable == InitTimetable /\ [][NextTimetable]_vars

InitRegister ==
    /\ revision = "routes.ts"
    /\ users = {}
    /\ timetable = {}
    /\ attendance = {}
    /\ profiles = {}
    /\ fees = {}
    /\ students = {}
    /\ classes = {}
    /\ sections = {}
    /\ client = ClientIdle
    /\ now = 0
    /\ reqs = [r \in ReqIds |-> Idle]

NextRegister ==
    \/ \E r \in ReqIds, p \in RegisterPayloads : RegReceive(r, p)
    \/ \E r \in ReqIds : RegEmail(r)
    \/ \E r \in ReqIds : RegUsername(r)
    \/ \E r \in ReqIds : RegCreate(r)

SpecRegister == InitRegister /\ [][NextRegister]_vars

InitAccounts ==
    /\ revision = "routes.ts"
    /\ users \in AccountStores
    /\ timetable = {}
    /\ attendance = {}
    /\ profiles = {}
    /\ fees = {}
    /\ students = {}
    /\ classes = {}
    /\ sections = {}
    /\ client = ClientIdle
    /\ now = 0
    /\ reqs = [r \in ReqIds |-> Idle]

NextAccounts ==
    \/ \E r \in AccountReqIds, p \in AccountPayloads : RegReceive(r, p)
    \/ \E r \in AccountReqIds : RegEmail(r)
    \/ \E r \in AccountReqIds : RegUsername(r)
    \/ \E r \in AccountReqIds : RegCreate(r)
    \/ \E r \in AccountReqIds, p \in TeacherPayloads : TeachReceive(r, p)
    \/ \E r \in AccountReqIds : TeachEmail(r)
    \/ \E r \in AccountReqIds : TeachUsername(r)
    \/ \E r \in AccountReqIds : TeachCreateUser(r)
    \/ \E r \in AccountReqIds : TeachCreateProfile(r)
    \/ \E r \in AccountReqIds, p \in LoginPayloads : LoginReceive(r, p)
    \/ \E r \in AccountReqIds : LoginUser(r)
    \/ \E r \in AccountReqIds : LoginCompare(r)

SpecAccounts == InitAccounts /\ [][NextAccounts]_vars

\* The routes the access specification sends requests to: one without a
\* role check, one for admin and teacher, one for admin.
AccessRoutes ==
    {rt \in ServerRoutes(revision) :
        rt.route \in {"GET /api/auth/me", "POST /api/attendance",
                      "POST /api/fees"}}

\* The tokens the server has sent in its answers so far.
IssuedTokens ==
    UNION {reqs[q].token :
              q \in {x \in ReqIds : IF reqs[x] = Idle THEN FALSE
                                     ELSE reqs[x].kind \in {"login", "register"}}}

\* The tokens the clients hold from logins on day 0.
PriorTokens == {jwtSign(u, 0) : u \in AccessStore}

\* The Authorization headers a client may send: none, one without a
\* token, one with a token the server issued, one with a forged token.
Authorizations ==
    {<<>>, <<"Bearer">>}
      \cup {<<"Bearer", tok>> :
               tok \in PriorTokens \cup IssuedTokens \cup {ForgedToken}}

InitAccess ==
    /\ revision = "part_007"
    /\ users = AccessStore
    /\ timetable = {}
    /\ attendance = {}
    /\ profiles = {}
    /\ fees = {}
    /\ students = {}
    /\ classes = {}
    /\ sections = {}
    /\ client = ClientIdle
    /\ now = AccessStartDay
    /\ reqs = [r \in ReqIds |-> Idle]

NextAccess ==
    \/ \E r \in AccessReqIds, p \in AccessLogins : LoginReceive(r, p)
    \/ \E r \in AccessReqIds : LoginUser(r)
    \/ \E r \in AccessReqIds : LoginCompare(r)
    \/ \E r \in AccessReqIds, p \in AccessRegistrations : RegReceive(r, p)
    \/ \E r \in AccessReqIds : RegEmail(r)
    \/ \E r \in AccessReqIds : RegUsername(r)
    \/ \E r \in AccessReqIds : RegCreate(r)
    \/ \E r \in AccessReqIds, rt \in AccessRoutes, a \in Authorizations :
          \E b \in AccessBodies(rt.route) : Access(r, rt, a, b)
    \/ \E r \in AccessReqIds : MeGetUser(r)
    \/ \E r \in AccessReqIds : AttendanceCreate(r)
    \/ \E r \in AccessReqIds : FeeCreate(r)
    \/ Tick(MaxDay)

SpecAccess == InitAccess /\ [][NextAccess]_vars

\* The routes the fee specification sends requests to.
FeeRoutes ==
    {rt \in ServerRoutes(revision) :
        rt.route \in {"POST /api/fees", "PATCH /api/fees/:id/pay",
                      "GET /api/analytics"}}

\* The Authorization header of the admin's client: the token of a login on
\* the start day.
FeeAuthorizations ==
    {<<"Bearer", jwtSign(u, FeeStartDay)>> :
        u \in {x \in AccessStore : x.role = "admin"}}

InitFees ==
    /\ revision = "part_007"
    /\ users = AccessStore
    /\ timetable = {}
    /\ attendance = {}
    /\ profiles = {}
    /\ fees = FeeStore
    /\ students = {}
    /\ classes = {}
    /\ sections = {}
    /\ client = ClientIdle
    /\ now = FeeStartDay
    /\ reqs = [r \in ReqIds |-> Idle]

NextFees ==
    \/ \E r \in FeeReqIds, rt \in FeeRoutes, a \in FeeAuthorizations :
          \E b \in FeeRouteBodies(rt.route) : Access(r, rt, a, b)
    \/ \E r \in FeeReqIds : FeeCreate(r)
    \/ \E r \in FeeReqIds : FeePay(r)
    \/ \E r \in FeeReqIds : AnalyticsStudents(r)
    \/ \E r \in FeeReqIds : AnalyticsTeachers(r)
    \/ \E r \in FeeReqIds : AnalyticsRevenue(r)
    \/ \E r \in FeeReqIds : AnalyticsToday(r)
    \/ Tick(FeeStartDay + MaxFeeDays)

SpecFees == InitFees /\ [][NextFees]_vars

\* The dashboard routes of the running revision.
DashboardRoutes == {rt \in ServerRoutes(revision) : rt.route \in AnalyticsRoutes}

\* The Authorization header of the admin's client: a token of day 0.
AdminAuthorizations ==
    {<<"Bearer", jwtSign(u, 0)>> : u \in {x \in AccessStore : x.role = "admin"}}

InitDashboard ==
    /\ revision \in Revisions
    /\ users = AccessStore
    /\ timetable = {}
    /\ attendance \in DashboardAttendance
    /\ profiles = {}
    /\ fees = {}
    /\ students \in DashboardStudents
    /\ classes = {}
    /\ sections = {}
    /\ client = ClientIdle
    /\ now = 0
    /\ reqs = [r \in ReqIds |-> Idle]

NextDashboard ==
    \/ \E rt \in DashboardRoutes, a \in AdminAuthorizations :
          Access(1, rt, a, EmptyBody)
    \/ AnalyticsStudents(1)
    \/ AnalyticsTeachers(1)
    \/ AnalyticsRevenue(1)
    \/ AnalyticsToday(1)
    \/ AnalyticsCount(1)
    \/ Tick(MaxDashboardDays)

SpecDashboard == InitDashboard /\ [][NextDashboard]_vars

\* The routes the payroll specification sends requests to, with their
\* bodies.
PayrollRoutes ==
    {rt \in ServerRoutes(revision) :
        rt.route \in {"POST /api/teachers/:id/pay-salary",
                      "PATCH /api/teachers/:id"}}

PayrollBodies(route) ==
    IF route = "PATCH /api/teachers/:id" THEN TeacherUpdateBodies
    ELSE PaySalaryBodies

InitPayroll ==
    /\ revision = "part_007"
    /\ users = AccessStore \cup PayrollTeachers
    /\ timetable = {}
    /\ attendance = {}
    /\ profiles = PayrollProfiles
    /\ fees = {}
    /\ students = {}
    /\ classes = {}
    /\ sections = {}
    /\ client = ClientIdle
    /\ now = 0
    /\ reqs = [r \in ReqIds |-> Idle]

NextPayroll ==
    \/ \E r \in PayrollReqIds, rt \in PayrollRoutes, a \in AdminAuthorizations :
          \E b \in PayrollBodies(rt.route) : Access(r, rt, a, b)
    \/ \E r \in PayrollReqIds : SalaryPay(r)
    \/ \E r \in PayrollReqIds : TeacherUpdate(r)
    \/ \E r \in PayrollReqIds, p \in PayrollTeacherPayloads : TeachReceive(r, p)
    \/ \E r \in PayrollReqIds : TeachEmail(r)
    \/ \E r \in PayrollReqIds : TeachUsername(r)
    \/ \E r \in PayrollReqIds : TeachCreateUser(r)
    \/ \E r \in PayrollReqIds : TeachCreateProfile(r)
    \/ Tick(MaxPayrollDays)

SpecPayroll == InitPayroll /\ [][NextPayroll]_vars

\* The routes the class and student specification sends requests to, with
\* their bodies.
SchoolRoutes ==
    {rt \in ServerRoutes(revision) :
        rt.route \in {"POST /api/classes", "PATCH /api/classes/:id",
                      "DELETE /api/classes/:id", "POST /api/students",
                      "GET /api/students"}}

SchoolBodies(route) ==
    IF route = "POST /api/classes" THEN ClassBodies
    ELSE IF route = "PATCH /api/classes/:id" THEN ClassUpdateBodies
    ELSE IF route = "DELETE /api/classes/:id" THEN ClassParams
    ELSE IF route = "POST /api/students" THEN StudentBodies
    ELSE {EmptyBody}

InitSchool ==
    /\ revision \in Revisions
    /\ users = AccessStore
    /\ timetable = {}
    /\ attendance = {}
    /\ profiles = {}
    /\ fees = {}
    /\ students = SchoolStudents
    /\ classes = SchoolClasses
    /\ sections = SchoolSections
    /\ client = ClientIdle
    /\ now = 0
    /\ reqs = [r \in ReqIds |-> Idle]

NextSchool ==
    \/ \E r \in SchoolReqIds, rt \in SchoolRoutes, a \in AdminAuthorizations :
          \E b \in SchoolBodies(rt.route) : Access(r, rt, a, b)
    \/ \E r \in SchoolReqIds : ClassCreate(r)
    \/ \E r \in SchoolReqIds : ClassUpdate(r)
    \/ \E r \in SchoolReqIds : ClassDelete(r)
    \/ \E r \in SchoolReqIds : StudentCreate(r)
    \/ \E r \in SchoolReqIds : StudentList(r)

SpecSchool == InitSchool /\ [][NextSchool]_vars

\* The routes the roll-call specification sends requests to, with their
\* bodies.
RollCallRoutes ==
    {rt \in ServerRoutes(revision) :
        rt.route \in {"POST /api/attendance", "POST /api/students",
                      "DELETE /api/students/:id",
                      "GET /api/analytics/dashboard"}}

RollCallRouteBodies(route) ==
    IF route = "POST /api/attendance" THEN RollCallBodies
    ELSE IF route = "POST /api/students" THEN RollCallStudentBodies
    ELSE IF route = "DELETE /api/students/:id" THEN StudentParams
    ELSE {EmptyBody}

InitRollCall ==
    /\ revision = "routes.ts"
    /\ users = AccessStore
    /\ timetable = {}
    /\ attendance = {}
    /\ profiles = {}
    /\ fees = {}
    /\ students = SchoolStudents
    /\ classes = SchoolClasses
    /\ sections = SchoolSections
    /\ client = ClientIdle
    /\ now = 0
    /\ reqs = [r \in ReqIds |-> Idle]

NextRollCall ==
    \/ \E r \in RollCallReqIds, rt \in RollCallRoutes, a \in AdminAuthorizations :
          \E b \in RollCallRouteBodies(rt.route) : Access(r, rt, a, b)
    \/ \E r \in RollCallReqIds : AttendanceCreate(r)
    \/ \E r \in RollCallReqIds, p \in RollCallBulkPayloads : BulkReceive(r, p)
    \/ \E r \in RollCallReqIds, i \in 1..MaxRecords : BulkInsert(r, i)
    \/ \E r \in RollCallReqIds : StudentCreate(r)
    \/ \E r \in RollCallReqIds : StudentDelete(r)
    \/ \E r \in RollCallReqIds : AnalyticsStudents(r)
    \/ \E r \in RollCallReqIds : AnalyticsTeachers(r)
    \/ \E r \in RollCallReqIds : AnalyticsRevenue(r)
    \/ \E r \in RollCallReqIds : AnalyticsToday(r)
    \/ \E r \in RollCallReqIds : AnalyticsCount(r)

SpecRollCall == InitRollCall /\ [][NextRollCall]_vars

InitRoles ==
    /\ revision \in Revisions
    /\ users = {}
    /\ timetable = {}
    /\ attendance = {}
    /\ profiles = {}
    /\ fees = {}
    /\ students = {}
    /\ classes = {}
    /\ sections = {}
    /\ client = ClientIdle
    /\ now = 0
    /\ reqs = [r \in ReqIds |-> Idle]

NextRoles ==
    \/ \E r \in RoleReqIds, p \in RolePayloads : RegReceive(r, p)
    \/ \E r \in RoleReqIds : RegEmail(r)
    \/ \E r \in RoleReqIds : RegUsername(r)
    \/ \E r \in RoleReqIds : RegCreate(r)
    \/ \E r \in RoleReqIds, p \in LoginPayloads : LoginReceive(r, p)
    \/ \E r \in RoleReqIds : LoginUser(r)
    \/ \E r \in RoleReqIds : LoginCompare(r)

SpecRoles == InitRoles /\ [][NextRoles]_vars

\* The Authorization header of the client's student request: none, or the
\* token of the admin who is logged in.
ClientAuthorizations == {<<>>} \cup AdminAuthorizations

InitEnroll ==
    /\ revision \in Revisions
    /\ users = AccessStore
    /\ timetable = {}
    /\ attendance = {}
    /\ profiles = {}
    /\ fees = {}
    /\ students = SchoolStudents
    /\ classes = SchoolClasses
    /\ sections = SchoolSections
    /\ client = ClientIdle
    /\ now = 0
    /\ reqs = [r \in ReqIds |-> Idle]

NextEnroll ==
    \/ \E r \in EnrollReqIds, values \in EnrollForms : ClientSubmit(r, values)
    \/ \E r \in EnrollReqIds : RegEmail(r)
    \/ \E r \in EnrollReqIds : RegUsername(r)
    \/ \E r \in EnrollReqIds : RegCreate(r)
    \/ ClientRegisterFailed
    \/ \E r \in EnrollReqIds, a \in ClientAuthorizations :
          ClientCreateStudent(r, a)
    \/ \E r \in EnrollReqIds : StudentCreate(r)
    \/ ClientSettled

SpecEnroll == InitEnroll /\ [][NextEnroll]_vars

InitSubstitutes ==
    /\ revision = "routes.ts"
    /\ users \in UserStores
    /\ timetable \in SeedTimetables
    /\ attendance = {}
    /\ profiles = {}
    /\ fees = {}
    /\ students = {}
    /\ classes = {}
    /\ sections = {}
    /\ client = ClientIdle
    /\ now = 0
    /\ reqs = [r \in ReqIds |-> Idle]

NextSubstitutes ==
    \/ \E r \in LookupReqIds, p \in BusyPayloads : TTReceive(r, p)
    \/ \E r \in LookupReqIds : TTCheck(r)
    \/ \E r \in LookupReqIds : TTInsert(r)
    \/ \E r \in LookupReqIds, q \in SubstituteQueries : SubTeachers(r, q)
    \/ \E r \in LookupReqIds : SubBusy(r)
    \/ \E r \in LookupReqIds : SubAnswer(r)

SpecSubstitutes == InitSubstitutes /\ [][NextSubstitutes]_vars

InitAttendance ==
    /\ revision = "routes.ts"
    /\ users = {}
    /\ timetable = {}
    /\ attendance = {}
    /\ profiles = {}
    /\ fees = {}
    /\ students = {}
    /\ classes = {}
    /\ sections = {}
    /\ client = ClientIdle
    /\ now = 0
    /\ reqs = [r \in ReqIds |-> Idle]

NextAttendance ==
    \/ \E r \in BulkReqIds, p \in BulkPayloads : BulkReceive(r, p)
    \/ \E r \in BulkReqIds, i \in 1..MaxRecords : BulkInsert(r, i)

SpecAttendance == InitAttendance /\ [][NextAttendance]_vars

\* ---------------------------------------------------- timetable: claims
CreateKinds == {"ttcreate", "ttdirect"}

\* Request r is answered by this step.
AnsweredNow(r) ==
    /\ reqs'[r] # Idle /\ reqs'[r].pc = "done"
    /\ IF reqs[r] = Idle THEN TRUE ELSE reqs[r].pc # "done"

TeacherBusy(p) ==
    \E x \in timetable : /\ x.teacherId = p.teacherId
                         /\ x.dayOfWeek = p.dayOfWeek
                         /\ x.periodNumber = p.periodNumber

ClassSlotTaken(p) ==
    \E x \in timetable : /\ x.classId = p.classId
                         /\ x.sectionId = p.sectionId
                         /\ x.dayOfWeek = p.dayOfWeek
                         /\ x.periodNumber = p.periodNumber

\* C1 (as claimed): a valid create for a teacher who has an entry at the
\* same (dayOfWeek, periodNumber) is answered 409 and adds no entry; a valid
\* create for a free teacher and a free class/section slot is answered 201
\* and adds exactly one entry.
C1_BusyTeacherIs409 ==
    [][\A r \in ReqIds :
          (AnsweredNow(r) /\ reqs'[r].kind = "ttcreate"
               /\ insertTimetableSchema(reqs'[r].payload)) =>
             LET p == reqs'[r].payload IN
             /\ TeacherBusy(p) =>
                   reqs'[r].status = Conflict /\ timetable' = timetable
             /\ (~TeacherBusy(p) /\ ~ClassSlotTaken(p)) =>
                   /\ reqs'[r].status = Created
                   /\ timetable \subseteq timetable'
                   /\ Cardinality(timetable') = Cardinality(timetable) + 1]_vars

\* C2: the store never holds two entries with the same
\* (teacherId, dayOfWeek, periodNumber), whatever the interleaving of
\* creates and deletes.
C2_TeacherSlotUnique ==
    \A a \in timetable : \A b \in timetable :
        (a.teacherId = b.teacherId /\ a.dayOfWeek = b.dayOfWeek
            /\ a.periodNumber = b.periodNumber) => a = b

\* C2's case: two creates raced on one teacher slot (different class
\* slots), both passed the existence check, and the store kept one.
C2_Witness ==
    \E r \in ReqIds : \E q \in ReqIds :
        /\ reqs[r] # Idle /\ reqs[q] # Idle
        /\ reqs[r].kind = "ttcreate" /\ reqs[q].kind = "ttcreate"
        /\ reqs[r].status = Created /\ reqs[q].status = Internal
        /\ reqs[r].payload.teacherId = reqs[q].payload.teacherId
        /\ reqs[r].payload.periodNumber = reqs[q].payload.periodNumber
        /\ reqs[r].payload.sectionId # reqs[q].payload.sectionId
        /\ Cardinality(timetable) = 1

ClassSlotUnique ==
    \A a \in timetable : \A b \in timetable :
        (a.classId = b.classId /\ a.sectionId = b.sectionId
            /\ a.dayOfWeek = b.dayOfWeek
            /\ a.periodNumber = b.periodNumber) => a = b

\* C3: after every step the store holds at most one entry per
\* (classId, sectionId, dayOfWeek, periodNumber), and a valid create for an
\* occupied class/section slot whose teacher is free is rejected (not 201)
\* and leaves the store as it was.
C3_ClassSlotUnique ==
    [][/\ ClassSlotUnique'
       /\ \A r \in ReqIds :
             (AnsweredNow(r) /\ reqs'[r].kind \in CreateKinds
                  /\ insertTimetableSchema(reqs'[r].payload)
                  /\ ClassSlotTaken(reqs'[r].payload)
                  /\ ~TeacherBusy(reqs'[r].payload)) =>
                (reqs'[r].status # Created /\ timetable' = timetable)]_vars

\* C3's case: a create whose teacher was free passed the existence check
\* and was rejected for the class/section slot alone.
C3_Witness ==
    \E r \in ReqIds : \E x \in timetable :
        /\ reqs[r] # Idle /\ reqs[r].kind = "ttcreate"
        /\ reqs[r].pc = "done" /\ reqs[r].status = Internal
        /\ x.teacherId # reqs[r].payload.teacherId
        /\ x.sectionId = reqs[r].payload.sectionId
        /\ x.periodNumber = reqs[r].payload.periodNumber
        /\ ~TeacherBusy(reqs[r].payload)

\* C4: the step in which a create request's existence check returns
\* changes neither the store nor any other request: check and insert are
\* separate steps, and nothing is locked between them.
C4_CheckIsNotTheInsert ==
    [][\A r \in ReqIds :
          (reqs[r] # Idle /\ reqs[r].kind = "ttcreate"
               /\ reqs[r].pc = "check" /\ reqs'[r] # reqs[r]) =>
             /\ timetable' = timetable
             /\ \A q \in ReqIds \ {r} : reqs'[q] = reqs[q]]_vars

\* C4's case: two requests for one teacher slot have both read "no
\* existing entry" and neither has inserted.
C4_Witness ==
    \E r \in ReqIds : \E q \in ReqIds \ {r} :
        /\ reqs[r] # Idle /\ reqs[q] # Idle
        /\ reqs[r].kind = "ttcreate" /\ reqs[q].kind = "ttcreate"
        /\ reqs[r].pc = "insert" /\ reqs[q].pc = "insert"
        /\ reqs[r].payload.teacherId = reqs[q].payload.teacherId
        /\ reqs[r].payload.dayOfWeek = reqs[q].payload.dayOfWeek
        /\ reqs[r].payload.periodNumber = reqs[q].payload.periodNumber
        /\ ~TeacherBusy(reqs[r].payload)

\* C5 (as claimed): every rejection caused by a uniqueness violation,
\* found by the handler's queries or by the store's unique index, is
\* answered 409 and leaves the store unchanged.  Here: a valid register
\* whose username or e-mail a stored user already has.
C5_UniquenessRejectionIs409 ==
    [][\A r \in ReqIds :
          (AnsweredNow(r) /\ reqs'[r].kind = "register"
               /\ insertUserSchema(reqs'[r].payload)
               /\ \E u \in users : \/ u.username = reqs'[r].payload.username
                                   \/ u.email = reqs'[r].payload.email) =>
             (reqs'[r].status = Conflict /\ users' = users)]_vars

\* ------------------------------------------------ substitutes: claims
SubAnswered(r) ==
    /\ reqs[r] # Idle /\ reqs[r].kind = "substitutes"
    /\ reqs[r].pc = "done" /\ reqs[r].status = Ok

HasEntryAt(id, dayOfWeek, periodNumber) ==
    \E t \in timetable : /\ t.teacherId = id
                         /\ t.dayOfWeek = dayOfWeek
                         /\ t.periodNumber = periodNumber

\* C6: in every state of the store and for every (dayOfWeek, periodNumber,
\* excludedTeacherId, subject), the substitutes never contain the excluded
\* user nor a teacher with an entry at that slot; and every answer given
\* excludes the excluded user and the teachers its slot query found busy.
C6_SubstitutesNotExcludedNotBusy ==
    /\ \A q \in SubstituteQueries :
          \A u \in getSubstituteTeachers(users, timetable, q.dayOfWeek,
                       q.periodNumber, q.teacherId, q.subject) :
              /\ u.id # q.teacherId
              /\ ~HasEntryAt(u.id, q.dayOfWeek, q.periodNumber)
    /\ \A r \in ReqIds : SubAnswered(r) =>
          \A u \in reqs[r].body :
              /\ u.id # reqs[r].payload.teacherId
              /\ u.id \notin reqs[r].busyTeacherIds

\* C6's case: an answered lookup whose excluded user is a teacher, with
\* another teacher busy at the slot and a third one returned.
C6_Witness ==
    \E r \in ReqIds :
        /\ SubAnswered(r)
        /\ reqs[r].payload.teacherId \in {t.id : t \in reqs[r].teachers}
        /\ (reqs[r].busyTeacherIds \cap {t.id : t \in reqs[r].teachers})
               \ {reqs[r].payload.teacherId} # {}
        /\ reqs[r].body # {}

\* C7: the substitutes are exactly the teacher-role users, minus the
\* excluded one, minus those with an entry at the slot: on every state of
\* the store, and in every answer with respect to what its queries read.
C7_SubstitutesExactly ==
    /\ \A q \in SubstituteQueries :
          {u.id : u \in getSubstituteTeachers(users, timetable, q.dayOfWeek,
                            q.periodNumber, q.teacherId, q.subject)}
            = {u.id : u \in {v \in users : v.role = "teacher"}}
                 \ ({q.teacherId} \cup
                    {t.teacherId : t \in {x \in timetable :
                          /\ x.dayOfWeek = q.dayOfWeek
                          /\ x.periodNumber = q.periodNumber}})
    /\ \A r \in ReqIds : SubAnswered(r) =>
          /\ \A u \in reqs[r].body : u.role = "teacher" /\ u \in users
          /\ {u.id : u \in reqs[r].body}
               = {u.id : u \in {v \in users : v.role = "teacher"}}
                    \ ({reqs[r].payload.teacherId} \cup reqs[r].busyTeacherIds)

\* C7's case: an answered lookup with a free user of another role in the
\* store and a free teacher in the answer.
C7_Witness ==
    \E r \in ReqIds :
        /\ SubAnswered(r)
        /\ \E v \in users : /\ v.role # "teacher"
                            /\ v.id # reqs[r].payload.teacherId
                            /\ v.id \notin reqs[r].busyTeacherIds
        /\ reqs[r].busyTeacherIds # {}
        /\ reqs[r].body # {}

\* C8: the substitutes do not depend on the subject: on every state of the
\* store any two subjects give the same result, and two answers to the
\* same (dayOfWeek, periodNumber, excludedTeacherId) whose queries read the
\* same documents are equal whatever their subjects.
C8_SubjectIsInert ==
    /\ \A q \in SubstituteQueries : \A s \in Subjects \cup {""} :
          getSubstituteTeachers(users, timetable, q.dayOfWeek, q.periodNumber,
                                q.teacherId, s)
            = getSubstituteTeachers(users, timetable, q.dayOfWeek,
                                    q.periodNumber, q.teacherId, q.subject)
    /\ \A r \in ReqIds : \A o \in ReqIds :
          (/\ SubAnswered(r) /\ SubAnswered(o)
           /\ reqs[r].payload.dayOfWeek = reqs[o].payload.dayOfWeek
           /\ reqs[r].payload.periodNumber = reqs[o].payload.periodNumber
           /\ reqs[r].payload.teacherId = reqs[o].payload.teacherId
           /\ reqs[r].teachers = reqs[o].teachers
           /\ reqs[r].busyTeacherIds = reqs[o].busyTeacherIds) =>
             reqs[r].body = reqs[o].body

\* C8's case: two answered lookups that differ in the subject alone, one
\* of them without a subject, with a teacher busy and a teacher returned.
C8_Witness ==
    \E r \in ReqIds : \E o \in ReqIds :
        /\ SubAnswered(r) /\ SubAnswered(o)
        /\ reqs[r].payload.subject = "" /\ reqs[o].payload.subject = "English"
        /\ reqs[r].payload.periodNumber = reqs[o].payload.periodNumber
        /\ reqs[r].payload.teacherId = reqs[o].payload.teacherId
        /\ reqs[r].busyTeacherIds = reqs[o].busyTeacherIds
        /\ reqs[r].busyTeacherIds # {}
        /\ reqs[r].body # {} /\ reqs[r].body = reqs[o].body

\* ------------------------------------------------- attendance: claims
BulkCreated(r) ==
    /\ reqs[r] # Idle /\ reqs[r].kind = "bulk"
    /\ reqs[r].pc = "done" /\ reqs[r].status = Created

\* C9: no step removes or changes a stored attendance row; a bulk request
\* answered 201 for N records has added exactly N rows; and two such
\* requests with the same date and records leave 2N rows, two for every
\* record of the batch.
C9_BulkAddsExactlyN ==
    [][/\ attendance \subseteq attendance'
       /\ \A r \in BulkReqIds :
             (AnsweredNow(r) /\ reqs'[r].kind = "bulk"
                  /\ reqs'[r].status = Created) =>
                LET n == Len(reqs'[r].payload.records) IN
                /\ Cardinality(RowsOf(attendance', r)) = n
                /\ Cardinality(attendance')
                     = Cardinality(attendance \ RowsOf(attendance, r)) + n
                /\ \A o \in BulkReqIds \ {r} :
                      (reqs'[o] # Idle /\ reqs'[o].kind = "bulk"
                           /\ reqs'[o].pc = "done"
                           /\ reqs'[o].status = Created
                           /\ reqs'[o].payload = reqs'[r].payload) =>
                         /\ Cardinality(RowsOf(attendance', r)
                                          \cup RowsOf(attendance', o)) = 2 * n
                         /\ \A i \in 1..n :
                               Cardinality({x \in attendance' :
                                   /\ x.id \in {<<r, i>>, <<o, i>>}
                                   /\ x.date = reqs'[r].payload.date
                                   /\ x.studentId
                                        = reqs'[r].payload.records[i].studentId})
                                 = 2]_vars

\* C9's case: the same batch of MaxRecords records was submitted twice and
\* answered 201 twice.
C9_Witness ==
    \E r \in BulkReqIds : \E o \in BulkReqIds \ {r} :
        /\ BulkCreated(r) /\ BulkCreated(o)
        /\ reqs[r].payload = reqs[o].payload
        /\ Len(reqs[r].payload.records) = MaxRecords
        /\ Cardinality(attendance) = 2 * MaxRecords

\* C10: once an insert of a batch has failed the request is answered 500;
\* every row whose insert succeeded is in the store from then on, and no
\* row of a failed record is.
C10_PartialFailureNoRollback ==
    \A r \in BulkReqIds :
        (reqs[r] # Idle /\ reqs[r].kind = "bulk" /\ reqs[r].failed # {}) =>
           LET n == Len(reqs[r].payload.records) IN
           /\ reqs[r].pc = "done" /\ reqs[r].status = Internal
           /\ \A i \in (1..n) \ (reqs[r].pending \cup reqs[r].failed) :
                 AttendanceDoc(r, i, reqs[r].payload) \in attendance
           /\ \A i \in reqs[r].failed :
                 \A x \in attendance : x.id # <<r, i>>

\* C10's case: a batch with one record that failed and one that was
\* inserted after the 500 had been sent.
C10_Witness ==
    \E r \in BulkReqIds :
        /\ reqs[r] # Idle /\ reqs[r].kind = "bulk"
        /\ reqs[r].failed # {} /\ reqs[r].pending = {}
        /\ reqs[r].status = Internal
        /\ RowsOf(attendance, r) # {}

\* --------------------------------------------------- accounts: claims
AnsweredLogin(r) ==
    /\ reqs[r] # Idle /\ reqs[r].kind = "login" /\ reqs[r].pc = "done"
    /\ loginSchema(reqs[r].payload)

\* The username query of login r found no user.
UnknownUsername(r) == AnsweredLogin(r) /\ reqs[r].found = {}

\* The username query of login r found a user with another password.
WrongPassword(r) ==
    /\ AnsweredLogin(r)
    /\ \E u \in reqs[r].found :
          u.password # <<"bcrypt", reqs[r].payload.password>>

\* What the client sees of an answer.
Observable(r) ==
    <<reqs[r].status, reqs[r].message, reqs[r].token, reqs[r].user>>

\* C11: a login with an unknown username and a login with a known username
\* and a wrong password are both answered 401 without a token, and any two
\* such answers are equal in status, message text and body.
C11_LoginFailuresLookAlike ==
    \A r \in AccountReqIds :
        (UnknownUsername(r) \/ WrongPassword(r)) =>
           /\ reqs[r].status = Unauthorized
           /\ reqs[r].token = {} /\ reqs[r].user = {}
           /\ \A o \in AccountReqIds :
                 (UnknownUsername(o) \/ WrongPassword(o)) =>
                    Observable(o) = Observable(r)

\* C11's case: one login failed for an unknown username, another for a
\* wrong password of a stored user.
C11_Witness ==
    \E r \in AccountReqIds : \E o \in AccountReqIds :
        /\ UnknownUsername(r) /\ WrongPassword(o)
        /\ reqs[o].payload.username \in {u.username : u \in users}
        /\ reqs[r].payload.username \notin {u.username : u \in users}
        /\ reqs[r].message = reqs[o].message

ValidRegister(req) ==
    req.kind = "register" /\ insertUserSchema(req.payload)

\* Register request q was answered 201 for the username and password of
\* login request r.
RegisteredAs(q, r) ==
    /\ reqs[q] # Idle /\ ValidRegister(reqs[q])
    /\ reqs[q].pc = "done" /\ reqs[q].status = Created
    /\ reqs[q].payload.username = reqs'[r].payload.username
    /\ reqs[q].payload.password = reqs'[r].payload.password

\* A login answered in this step, for a user registered before, succeeds
\* with the registered role in the user and in the token.
LoginAfterRegister ==
    \A r \in AccountReqIds : \A q \in AccountReqIds :
        (AnsweredNow(r) /\ reqs'[r].kind = "login" /\ RegisteredAs(q, r)) =>
           /\ reqs'[r].status = Ok
           /\ \E t \in reqs'[r].token : t.role = reqs[q].payload.role
           /\ \E u \in reqs'[r].user :
                 /\ u.role = reqs[q].payload.role
                 /\ u.username = reqs[q].payload.username

\* C12: a schema-valid register whose username and e-mail are not taken
\* (no stored user has them up to the step that answers it) is answered
\* 201 with a token of the registered role and its user is stored; any
\* login answered after that with that username and password succeeds and
\* returns a user and a token with the registered role.
C12_RegisterThenLogin ==
    [][/\ \A r \in AccountReqIds :
             (AnsweredNow(r) /\ ValidRegister(reqs'[r])
                  /\ ~TakenOnArrival(users, reqs'[r].payload)) =>
                /\ reqs'[r].status = Created
                /\ UserDoc(r, reqs'[r].payload) \in users'
                /\ \E t \in reqs'[r].token : t.role = reqs'[r].payload.role
       /\ LoginAfterRegister]_vars

\* C12's case: a student was registered, and a login that arrived later
\* with the same username and password got the student's token.
C12_Witness ==
    \E q \in AccountReqIds : \E r \in AccountReqIds :
        /\ q < r
        /\ reqs[q] # Idle /\ ValidRegister(reqs[q])
        /\ reqs[q].status = Created /\ reqs[q].payload.role = "student"
        /\ AnsweredLogin(r) /\ reqs[r].status = Ok
        /\ reqs[r].payload.username = reqs[q].payload.username
        /\ \E t \in reqs[r].token : t.role = "student" /\ t.id = q

\* A register or create-teacher request that passed its schemas.
ValidAccountRequest(req) ==
    \/ ValidRegister(req)
    \/ /\ req.kind = "teacher"
       /\ insertUserSchema(TeacherUserData(req.payload))
       /\ insertTeacherProfileSchema(req.payload)

UsersUnique ==
    \A a \in users : \A b \in users :
        (a.username = b.username \/ a.email = b.email) => a = b

\* C13: a register (or create-teacher) request whose e-mail or username an
\* existing user already had when it was made is answered 409, stores no
\* user and gets no token; and after every step of any register and
\* create-teacher requests no two stored users share a username or an
\* e-mail.
C13_TakenIs409 ==
    [][/\ \A r \in AccountReqIds :
             (AnsweredNow(r) /\ ValidAccountRequest(reqs'[r])
                  /\ reqs'[r].takenOnArrival) =>
                /\ reqs'[r].status = Conflict
                /\ reqs'[r].token = {} /\ reqs'[r].user = {}
                /\ users' = users
                /\ \A u \in users' : u.id # r
       /\ UsersUnique']_vars

\* C13's case: a teacher was created, and a register for the teacher's
\* username with another e-mail was answered 409.
C13_Witness ==
    \E q \in AccountReqIds : \E r \in AccountReqIds :
        /\ reqs[q] # Idle /\ reqs[q].kind = "teacher"
        /\ reqs[q].status = Created
        /\ reqs[r] # Idle /\ ValidRegister(reqs[r])
        /\ reqs[r].takenOnArrival /\ reqs[r].status = Conflict
        /\ reqs[r].payload.username = reqs[q].payload.username
        /\ reqs[r].payload.email # reqs[q].payload.email
        /\ \A u \in users : u.id # r

\* ----------------------------------------- authenticated routes: claims
\* The route of the running revision with this method and path.
RouteOf(name) == CHOOSE rt \in ServerRoutes(revision) : rt.route = name

Authenticated(rt) == \E i \in 1..Len(rt.chain) : rt.chain[i] = "authenticateToken"

RoleGated(rt) == \E i \in 1..Len(rt.chain) : rt.chain[i] = "requireRole"

\* The middleware or handler `name` was entered for the request.
Entered(req, name) == \E i \in 1..Len(req.ran) : req.ran[i] = name

\* Request r arrives at a route in this step.
ArrivesNow(r) ==
    reqs[r] = Idle /\ reqs'[r] # Idle /\ reqs'[r].kind = "access"

StoresUnchanged ==
    UNCHANGED <<users, timetable, attendance, profiles, fees, students,
                classes, sections>>

\* The request was answered before its handler was entered.
TurnedAway(req) ==
    req.pc = "done" /\ ~Entered(req, "handler") /\ req.body = {}

\* C14: a request to an authenticated route without a token is answered
\* 401, one whose token has a wrong signature or is expired is answered
\* 403; in both cases no identity is attached, the handler is not entered
\* in that step nor later (an answered request takes no further step), and
\* the stores are unchanged.
C14_VerificationFailsClosed ==
    [][\A r \in AccessReqIds :
          /\ (ArrivesNow(r) /\ Authenticated(RouteOf(reqs'[r].route))) =>
                LET token == bearerToken(reqs'[r].authorization) IN
                /\ token = {} =>
                      /\ reqs'[r].status = Unauthorized
                      /\ TurnedAway(reqs'[r]) /\ reqs'[r].reqUser = {}
                      /\ StoresUnchanged
                /\ (\E tok \in token :
                        tok.key # "JWT_SECRET" \/ now >= tok.exp) =>
                      /\ reqs'[r].status = Forbidden
                      /\ TurnedAway(reqs'[r]) /\ reqs'[r].reqUser = {}
                      /\ StoresUnchanged
          /\ (reqs[r] # Idle /\ reqs[r].pc = "done") => reqs'[r] = reqs[r]]_vars

\* C14's case: one request without a token was answered 401, one with a
\* forged admin token 403, and nothing was stored.
C14_Witness ==
    \E r \in AccessReqIds : \E o \in AccessReqIds :
        /\ reqs[r] # Idle /\ reqs[r].kind = "access"
        /\ reqs[r].authorization = <<>> /\ reqs[r].status = Unauthorized
        /\ reqs[o] # Idle /\ reqs[o].kind = "access"
        /\ reqs[o].authorization = <<"Bearer", ForgedToken>>
        /\ reqs[o].route = "POST /api/fees" /\ reqs[o].status = Forbidden
        /\ fees = {} /\ attendance = {}

\* C15: a token the server issued at time t passes authentication at
\* every time before t + 7 days and is answered 403 at every time after
\* it; issued tokens never change, a new token comes only from a login or
\* register answered in that step and is valid for 7 days from then, and
\* no identity is attached beyond a token's expiry.
C15_TokenValidSevenDays ==
    [][/\ \A r \in AccessReqIds :
             (ArrivesNow(r) /\ Authenticated(RouteOf(reqs'[r].route))) =>
                /\ \A tok \in bearerToken(reqs'[r].authorization)
                                \cap (PriorTokens \cup IssuedTokens) :
                      /\ now < tok.iat + TokenValidity =>
                            /\ reqs'[r].reqUser = {decoded(tok)}
                            /\ reqs'[r].status # Unauthorized
                            /\ reqs'[r].message # "Invalid or expired token"
                      /\ now > tok.iat + TokenValidity =>
                            /\ reqs'[r].status = Forbidden
                            /\ reqs'[r].message = "Invalid or expired token"
                            /\ TurnedAway(reqs'[r])
                /\ \A u \in reqs'[r].reqUser :
                      now < u.exp /\ u.exp = u.iat + TokenValidity
       /\ IssuedTokens \subseteq IssuedTokens'
       /\ \A tok \in IssuedTokens' \ IssuedTokens :
             /\ tok.iat = now /\ tok.exp = now + TokenValidity
             /\ \E r \in AccessReqIds :
                   /\ AnsweredNow(r) /\ reqs'[r].kind \in {"login", "register"}
                   /\ reqs'[r].status \in {Ok, Created}
                   /\ reqs'[r].token = {tok}]_vars

\* C15's case: a token of day 0 was presented after its 7 days and
\* answered 403, while a login of that day got a token valid beyond it.
C15_Witness ==
    \E r \in AccessReqIds : \E o \in AccessReqIds :
        /\ reqs[r] # Idle /\ reqs[r].kind = "access"
        /\ \E tok \in bearerToken(reqs[r].authorization) \cap PriorTokens :
              tok.role = "admin" /\ now > tok.exp
        /\ reqs[r].status = Forbidden
        /\ reqs[r].message = "Invalid or expired token"
        /\ reqs[o] # Idle /\ reqs[o].kind = "login" /\ reqs[o].status = Ok
        /\ \E tok \in reqs[o].token : tok.iat > TokenValidity /\ tok.exp > now

\* The routes that create, change or delete a class, section, student,
\* fee, teacher or timetable entry.
AdminWrites ==
    {"POST /api/classes", "PATCH /api/classes/:id", "DELETE /api/classes/:id",
     "POST /api/sections", "PATCH /api/sections/:id",
     "DELETE /api/sections/:id", "POST /api/students",
     "PATCH /api/students/:id", "DELETE /api/students/:id",
     "POST /api/fees", "PATCH /api/fees/:id/pay", "POST /api/teachers",
     "PATCH /api/teachers/:id", "POST /api/teachers/:id/pay-salary",
     "POST /api/timetable", "DELETE /api/timetable/:id"}

AttendanceWrites == {"POST /api/attendance", "POST /api/attendance/bulk"}

\* C16: on a role-gated route the handler is entered if and only if the
\* role of the authenticated identity is in the route's allow-list;
\* otherwise the request is answered 403 and the stores are unchanged.  An
\* attendance row is only ever added by a request of an admin or a
\* teacher, a fee only by a request of an admin; in both revisions the
\* attendance writes are gated for admin and teacher, and the class,
\* section, student, fee, teacher and timetable writes for admin.
C16_HandlerIffRoleAllowed ==
    [][/\ \A rev \in Revisions : \A rt \in ServerRoutes(rev) :
             /\ rt.route \in AdminWrites =>
                   RoleGated(rt) /\ rt.roles = {"admin"}
             /\ rt.route \in AttendanceWrites =>
                   RoleGated(rt) /\ rt.roles = {"admin", "teacher"}
       /\ \A r \in AccessReqIds :
             (ArrivesNow(r) /\ RoleGated(RouteOf(reqs'[r].route))
                  /\ reqs'[r].reqUser # {}) =>
                \A u \in reqs'[r].reqUser :
                   /\ Entered(reqs'[r], "handler")
                        <=> u.role \in RouteOf(reqs'[r].route).roles
                   /\ u.role \notin RouteOf(reqs'[r].route).roles =>
                         /\ reqs'[r].status = Forbidden
                         /\ TurnedAway(reqs'[r])
                         /\ StoresUnchanged
       /\ attendance' # attendance =>
             \E r \in AccessReqIds :
                /\ reqs[r] # Idle /\ reqs[r].kind = "access"
                /\ reqs'[r] # reqs[r]
                /\ \E u \in reqs[r].reqUser : u.role \in {"admin", "teacher"}
       /\ fees' # fees =>
             \E r \in AccessReqIds :
                /\ reqs[r] # Idle /\ reqs[r].kind = "access"
                /\ reqs'[r] # reqs[r]
                /\ \E u \in reqs[r].reqUser : u.role = "admin"]_vars

\* C16's case: a student's attendance create was answered 403, an
\* admin's was answered 201, and the only row is the admin's.
C16_Witness ==
    \E r \in AccessReqIds : \E o \in AccessReqIds :
        /\ reqs[r] # Idle /\ reqs[r].kind = "access"
        /\ reqs[r].route = "POST /api/attendance"
        /\ \E u \in reqs[r].reqUser : u.role = "student"
        /\ reqs[r].status = Forbidden
        /\ reqs[o] # Idle /\ reqs[o].kind = "access"
        /\ reqs[o].route = "POST /api/attendance"
        /\ \E u \in reqs[o].reqUser : u.role = "admin"
        /\ reqs[o].status = Created
        /\ {x.id : x \in attendance} = {<<o, 0>>}

\* C17: in both revisions every route with a role check declares
\* authenticateToken before it; for every request the role check is
\* entered only after authentication was entered and attached an
\* identity; and a request without a credential is answered
\* authentication's 401, never the role check's 403.
C17_AuthenticateThenAuthorize ==
    /\ \A rev \in Revisions : \A rt \in ServerRoutes(rev) :
          \A i \in 1..Len(rt.chain) :
             rt.chain[i] = "requireRole" =>
                \E j \in 1..(i - 1) : rt.chain[j] = "authenticateToken"
    /\ \A r \in AccessReqIds :
          (reqs[r] # Idle /\ reqs[r].kind = "access") =>
             /\ \A i \in 1..Len(reqs[r].ran) :
                   reqs[r].ran[i] = "requireRole" =>
                      /\ \E j \in 1..(i - 1) :
                            reqs[r].ran[j] = "authenticateToken"
                      /\ reqs[r].reqUser # {}
             /\ bearerToken(reqs[r].authorization) = {} =>
                   /\ reqs[r].status = Unauthorized
                   /\ reqs[r].message = "Access token required"
                   /\ ~Entered(reqs[r], "requireRole")

\* C17's case: on one role-gated route a request without a credential was
\* answered 401 by authentication, and a request of an admin went through
\* authentication, the role check and the handler in that order.
C17_Witness ==
    \E r \in AccessReqIds : \E o \in AccessReqIds :
        /\ reqs[r] # Idle /\ reqs[r].kind = "access"
        /\ reqs[r].route = "POST /api/fees" /\ reqs[r].authorization = <<>>
        /\ reqs[r].status = Unauthorized
        /\ reqs[r].ran = <<"authenticateToken">>
        /\ reqs[o] # Idle /\ reqs[o].kind = "access"
        /\ reqs[o].route = "POST /api/fees"
        /\ reqs[o].ran = <<"authenticateToken", "requireRole", "handler">>

\* ------------------------------------------------------------------- C18
\* The step in which the store call of PATCH /api/fees/:id/pay returns to
\* request r.
PayStep(r) ==
    /\ AtCall(r, "PATCH /api/fees/:id/pay", "updateFeeStatus")
    /\ reqs'[r].pc = "done"

\* The calendar month day t lies in.
MonthOf(t) == t \div MonthLength

\* C18: paying a fee that is Pending leaves it Cleared with a paid-date (the
\* date the pay request was taken up) and everything else about it and
\* about the other fees as it was, and the monthly revenue computed right
\* after the payment is the one computed right before plus the amount of
\* that fee. The revenue is the one of the month of the payment: computed
\* at the paid-date, and computed at the time of the store's update when
\* that is still the same month.
C18_PayingCountsTheAmount ==
    [][\A r \in FeeReqIds :
          PayStep(r) =>
             \A f \in fees :
                (f.id = reqs[r].payload.id /\ f.status = "Pending") =>
                   /\ reqs'[r].status = Ok
                   /\ reqs[r].newDate # {}
                   /\ \E g \in fees' :
                         /\ g = [f EXCEPT !.status = "Cleared",
                                          !.paidDate = reqs[r].newDate]
                         /\ fees' \ {g} = fees \ {f}
                         /\ reqs'[r].body = {g}
                   /\ \A t \in reqs[r].newDate :
                         /\ getMonthlyRevenue(fees', t)
                               = getMonthlyRevenue(fees, t) + f.amount
                         /\ MonthOf(now) = MonthOf(t) =>
                               getMonthlyRevenue(fees', now)
                                  = getMonthlyRevenue(fees, now) + f.amount]_vars

\* A pay request has been answered 200 for a fee that was Pending at the
\* start, the fee is Cleared with the request's date as paid-date, and the
\* revenue of the present month counts it.
C18_Witness ==
    \E r \in FeeReqIds :
       /\ reqs[r] # Idle /\ reqs[r].kind = "access"
       /\ reqs[r].route = "PATCH /api/fees/:id/pay"
       /\ reqs[r].pc = "done" /\ reqs[r].status = Ok
       /\ \E f \in fees, g \in FeeStore :
             /\ f.id = reqs[r].payload.id /\ g.id = f.id
             /\ g.status = "Pending"
             /\ f.status = "Cleared" /\ f.paidDate = reqs[r].newDate
             /\ f \in FeesClearedSince(fees, startOfMonth(now))
             /\ getMonthlyRevenue(fees, now) >= f.amount

\* ------------------------------------------------------------------- C19
\* C19 (as claimed): in every reachable state every fee whose status is
\* Cleared has a paid-date. The code does not keep it: insertFeeSchema
\* accepts a status, and createFee stores a fee posted as "Cleared" without
\* any paid-date.
C19_ClearedHasPaidDate ==
    \A f \in fees : f.status = "Cleared" => f.paidDate # {}

\* ------------------------------------------------------------------- C20
\* The fees that are Cleared with a paid-date inside the calendar month of
\* day t.
ClearedInMonthOf(fs, t) ==
    {f \in fs : /\ f.status = "Cleared"
                /\ \E d \in f.paidDate : MonthOf(d) = MonthOf(t)}

\* The step in which the fee query of getMonthlyRevenue returns to the
\* analytics request r.
RevenueStep(r) ==
    /\ AtCall(r, "GET /api/analytics", "getMonthlyRevenue")
    /\ reqs'[r].pc = "getTodayAttendance"

\* The analytics request r has been answered.
AnalyticsAnswered(r) ==
    /\ reqs[r] # Idle /\ reqs[r].kind = "access"
    /\ reqs[r].route = "GET /api/analytics"
    /\ reqs[r].pc = "done" /\ reqs[r].status = Ok

\* C20: monthlyRevenue is the sum of the amounts of exactly the fees that
\* are Cleared with a paid-date inside the current calendar month: Pending
\* fees, Cleared fees without paid-date and fees paid in an earlier month
\* add nothing, before and after the month changes. It holds of
\* getMonthlyRevenue on the store of every reachable state at that state's
\* time, and of the monthlyRevenue that the dashboard computes from the
\* fees its query reads, in the month the computation started in; the
\* answer carries the computed value.
C20_RevenueIsThisMonthsCleared ==
    /\ [](getMonthlyRevenue(fees, now)
             = SumAmounts(ClearedInMonthOf(fees, now)))
    /\ [][\A r \in FeeReqIds :
             /\ RevenueStep(r) =>
                   \A called \in reqs[r].newDate, b \in reqs'[r].body :
                      /\ b.revenueAsOf = called
                      /\ MonthOf(called) = MonthOf(now) =>
                            b.monthlyRevenue
                               = SumAmounts(ClearedInMonthOf(fees, called))
             /\ (~AnalyticsAnswered(r) /\ AnalyticsAnswered(r)') =>
                   \A b \in reqs[r].body : \E c \in reqs'[r].body :
                      c.monthlyRevenue = b.monthlyRevenue]_vars

\* After the month has changed the store holds a fee paid in the earlier
\* month, a fee paid in the present month and a Pending fee, and a
\* dashboard request started in the present month has been answered with
\* the amount of the second alone.
C20_Witness ==
    /\ MonthOf(now) > MonthOf(FeeStartDay)
    /\ \E f, g, h \in fees :
          /\ f.status = "Cleared" /\ f.paidDate = {FeeStartDay}
          /\ g.status = "Cleared" /\ g.paidDate = {now}
          /\ h.status = "Pending"
          /\ \E r \in FeeReqIds :
                /\ AnalyticsAnswered(r)
                /\ \E b \in reqs[r].body :
                      /\ MonthOf(b.revenueAsOf) = MonthOf(now)
                      /\ b.monthlyRevenue = g.amount
                      /\ b.monthlyRevenue > 0

\* ------------------------------------------------------------------- C21
\* A dashboard request that has been answered.
DashboardAnswered(r) ==
    /\ reqs[r] # Idle /\ reqs[r].kind = "access"
    /\ reqs[r].route \in AnalyticsRoutes
    /\ reqs[r].pc = "done" /\ reqs[r].status = Ok

\* The Present rows of the day of time t.
PresentOn(t) ==
    {a \in attendance : a.date = isoDate(t) /\ a.status = "Present"}

\* The integer nearest to a / b (a half rounds up), for a >= 0, b > 0.
Rounded(a, b) == (2 * a + b) \div (2 * b)

\* C21 (as claimed): the todayAttendance a dashboard route answers is 0
\* when there are no student records, and otherwise 100 times the number of
\* Present rows of today divided by the number of student records, rounded.
\* The code divides first and multiplies the rounded quotient by 100: for 23
\* Present rows and 40 students it answers 57, not 58.
C21_TodayAttendanceIsRoundedRatio ==
    \A r \in ReqIds :
       DashboardAnswered(r) =>
          \A b \in reqs[r].body : \A t \in b.attendanceAsOf :
             b.todayAttendance
                = IF students = {} THEN 0
                  ELSE Rounded(100 * Cardinality(PresentOn(t)),
                               Cardinality(students))

\* ------------------------------------------------------------------- C22
\* Sequence s is the beginning of sequence t.
IsPrefix(s, t) == Len(s) <= Len(t) /\ SubSeq(t, 1, Len(s)) = s

\* The step in which storage.paySalary returns a profile to request r.
SalaryPaidStep(r) ==
    /\ AtCall(r, "POST /api/teachers/:id/pay-salary", "paySalary")
    /\ reqs'[r].status = Ok

\* C22: the salary history only grows at its end. In every step every
\* profile is still there with its earlier entries in place, in order and
\* unchanged; and a pay-salary call that finds the teacher's profile leaves
\* that profile's history as it was plus exactly one entry of the
\* requested month and amount and the date of the call, also when the month
\* is in the history already, and leaves the other profiles' histories alone.
C22_SalaryHistoryAppendOnly ==
    [][/\ \A x \in profiles : \E y \in profiles' :
             y.id = x.id /\ IsPrefix(x.salaryHistory, y.salaryHistory)
       /\ \A r \in PayrollReqIds : SalaryPaidStep(r) =>
             \A x \in profiles : \E y \in profiles' :
                 /\ y.id = x.id
                 /\ y.salaryHistory =
                        IF x.userId = reqs[r].payload.id
                        THEN Append(x.salaryHistory,
                                    [month |-> CHOOSE m \in reqs[r].payload.month : TRUE,
                                     amount |-> CHOOSE a \in reqs[r].payload.amount : TRUE,
                                     paidDate |-> CHOOSE t \in reqs[r].newDate : TRUE])
                        ELSE x.salaryHistory]_vars

\* C22's case: a month that was paid already was paid again, and the
\* teacher's profile was updated through PATCH /api/teachers/:id as well.
C22_Witness ==
    \E r \in PayrollReqIds, q \in PayrollReqIds, x \in profiles :
        /\ reqs[r] # Idle /\ reqs[r].kind = "access"
        /\ reqs[r].route = "POST /api/teachers/:id/pay-salary"
        /\ reqs[r].status = Ok /\ reqs[r].pc = "done"
        /\ reqs[q] # Idle /\ reqs[q].kind = "access"
        /\ reqs[q].route = "PATCH /api/teachers/:id"
        /\ reqs[q].status = Ok /\ reqs[q].pc = "done"
        /\ x.userId = reqs[r].payload.id /\ x.userId = reqs[q].payload.id
        /\ Len(x.salaryHistory) >= 2
        /\ \E i \in 1..Len(x.salaryHistory) : \E j \in 1..Len(x.salaryHistory) :
              /\ i < j
              /\ x.salaryHistory[i].month = x.salaryHistory[j].month
              /\ x.salaryHistory[j].month \in reqs[r].payload.month

\* ------------------------------------------------------------------- C23
\* The profile write of teacher request r cannot succeed: the PAN number
\* the schema requires is missing, or the employee id is taken.
ProfileWriteFails(r) ==
    \/ reqs[r].payload.panNumber = ""
    \/ \E x \in profiles : x.employeeId = reqs[r].payload.employeeId

\* Teacher request r was answered 500 after its user account was written.
Orphaned(r) ==
    /\ reqs[r] # Idle /\ reqs[r].kind = "teacher" /\ reqs[r].pc = "done"
    /\ reqs[r].status = Internal
    /\ \E u \in users : u.id = r

\* C23: teacher creation is two writes without rollback. When the profile
\* write fails after the user account was written, the request is answered
\* 500 and the step writes nothing: the account of role teacher is still
\* stored and no profile refers to it; and that stays so whatever requests
\* follow.
C23_OrphanTeacherStays ==
    /\ [](\A r \in AccountReqIds : Orphaned(r) =>
             /\ \E u \in users : u.id = r /\ u.role = "teacher"
                    /\ u.username = reqs[r].payload.username
             /\ \A x \in profiles : x.userId # r)
    /\ [][\A r \in AccountReqIds :
             /\ (/\ reqs[r] # Idle /\ reqs[r].kind = "teacher"
                 /\ reqs[r].pc = "profile" /\ reqs'[r].pc = "done"
                 /\ ProfileWriteFails(r)) =>
                   /\ reqs'[r].status = Internal
                   /\ users' = users /\ profiles' = profiles
                   /\ Orphaned(r)'
             /\ Orphaned(r) => Orphaned(r)']_vars

\* C23's case: a teacher request was answered 500, its teacher account is
\* stored without a profile, and a login with that account succeeded.
C23_Witness ==
    \E r \in AccountReqIds, q \in AccountReqIds :
        /\ Orphaned(r)
        /\ \A x \in profiles : x.userId # r
        /\ reqs[q] # Idle /\ reqs[q].kind = "login" /\ reqs[q].status = Ok
        /\ \E u \in reqs[q].user : u.id = r

\* ------------------------------------------------------------------- C24
\* The step in which the store call of request r to `route` returns.
SchoolStep(r, route, pc) == AtCall(r, route, pc) /\ reqs'[r].pc = "done"

\* C24: deleting a class removes that class and nothing else: the other
\* classes, every section and every student record are as before, those
\* that refer to the deleted class included; and GET /api/students answers
\* with every student record as stored, so a student of a deleted class is
\* listed with the class and section it had.
C24_DeleteClassOnly ==
    [][\A r \in SchoolReqIds :
          /\ SchoolStep(r, "DELETE /api/classes/:id", "deleteClass") =>
                /\ classes' = {c \in classes : c.id # reqs[r].payload.id}
                /\ sections' = sections /\ students' = students
                /\ reqs'[r].status =
                      IF \E c \in classes : c.id = reqs[r].payload.id
                      THEN NoContent ELSE NotFound
          /\ SchoolStep(r, "GET /api/students", "getAllStudents") =>
                /\ reqs'[r].status = Ok
                /\ reqs'[r].body = students
                /\ \A x \in SchoolStudents : \E y \in reqs'[r].body :
                      /\ y.id = x.id /\ y.classId = x.classId
                      /\ y.sectionId = x.sectionId]_vars

\* C24's case: the class of a section and of a student on record was
\* deleted, the section is still stored, and the student list of a later
\* request names the student with that class.
C24_Witness ==
    \E r \in SchoolReqIds, q \in SchoolReqIds :
        /\ r < q
        /\ reqs[r] # Idle /\ reqs[r].route = "DELETE /api/classes/:id"
        /\ reqs[r].status = NoContent
        /\ reqs[q] # Idle /\ reqs[q].route = "GET /api/students"
        /\ reqs[q].status = Ok
        /\ \A c \in classes : c.id # reqs[r].payload.id
        /\ \E x \in sections : x.classId = reqs[r].payload.id
        /\ \E y \in reqs[q].body : y.classId = reqs[r].payload.id

\* ------------------------------------------------------------------- C25
\* C25: no two student records have the same userId.
C25_OneStudentPerUser ==
    \A x \in students : \A y \in students : x.userId = y.userId => x.id = y.id

\* ------------------------------------------------------------------- C30
\* C30: every stored class has a non-empty name and at least one subject.
C30_ClassesValid ==
    \A c \in classes : Len(c.name) >= 1 /\ Len(c.subjects) >= 1

\* ------------------------------------------------------------------- C29
\* C29: the todayAttendance value a dashboard route answers is between 0
\* and 100, whatever students were created and deleted and whatever
\* attendance was submitted, one by one or in bulk.
C29_TodayAttendanceIsPercentage ==
    \A r \in ReqIds :
       DashboardAnswered(r) =>
          \A b \in reqs[r].body :
             b.todayAttendance >= 0 /\ b.todayAttendance <= 100

\* ------------------------------------------------------------------- C27
\* The users in the response of a request: the user of a login, register or
\* teacher answer and the users a listing or lookup returns.
ResponseUsers(req) ==
    (IF "user" \in DOMAIN req THEN req.user ELSE {})
       \cup (IF req.kind = "substitutes" THEN req.body ELSE {})

\* C27: no response carries a password or password hash: the users a route
\* answers with, the substitutes of the lookup included, have no password
\* field.
C27_NoPasswordInResponses ==
    \A r \in ReqIds :
       reqs[r] # Idle =>
          \A u \in ResponseUsers(reqs[r]) : "password" \notin DOMAIN u

\* ------------------------------------------------------------------- C28
\* The public register route has no middleware in front of its handler.
RegisterIsPublic ==
    \A rt \in ServerRoutes(revision) :
        rt.route = "POST /api/auth/register" => rt.chain = <<>>

\* Every token a register or login answer carries names a stored user and
\* that user's stored role.
TokenRoleIsStoredRole ==
    \A r \in RoleReqIds :
        reqs[r] # Idle =>
           \A t \in reqs[r].token :
               \E u \in users : u.id = t.id /\ u.role = t.role

\* C28: register needs no credential; a schema-valid register with a free
\* username and e-mail is answered 201 whatever its role is, admin included;
\* every register answered 201 has stored a user with exactly the role of
\* the payload, one of admin, teacher, student and parent, and its token
\* carries that role; and the role in every issued token, of register and
\* of login, is the stored role of the token's user.
C28_RegisterStoresPayloadRole ==
    /\ [](RegisterIsPublic /\ TokenRoleIsStoredRole)
    /\ [][\A r \in RoleReqIds :
             /\ (AnsweredNow(r) /\ ValidRegister(reqs'[r])
                    /\ ~TakenOnArrival(users, reqs'[r].payload)) =>
                   reqs'[r].status = Created
             /\ (AnsweredNow(r) /\ reqs'[r].kind = "register"
                    /\ reqs'[r].status = Created) =>
                   /\ reqs'[r].payload.role \in UserRole
                   /\ \E u \in users' : /\ u.id = r
                                         /\ u.role = reqs'[r].payload.role
                   /\ \A u \in users' : u.id = r => u.role = reqs'[r].payload.role
                   /\ reqs'[r].token # {}
                   /\ \A t \in reqs'[r].token :
                         t.id = r /\ t.role = reqs'[r].payload.role]_vars

\* C28's case: without any credential one register created an admin and
\* another a parent, and each got a token of its role.
C28_Witness ==
    \E r \in RoleReqIds, q \in RoleReqIds :
        /\ reqs[r] # Idle /\ reqs[r].kind = "register"
        /\ reqs[r].status = Created /\ reqs[r].payload.role = "admin"
        /\ \E t \in reqs[r].token : t.role = "admin"
        /\ \E u \in users : u.id = r /\ u.role = "admin"
        /\ reqs[q] # Idle /\ reqs[q].kind = "register"
        /\ reqs[q].status = Created /\ reqs[q].payload.role = "parent"
        /\ \E t \in reqs[q].token : t.role = "parent"
        /\ \E u \in users : u.id = q /\ u.role = "parent"

\* ------------------------------------------------------------------- C26
\* Request q is a student creation request.
StudentRequest(q) ==
    /\ reqs[q] # Idle /\ reqs[q].kind = "access"
    /\ reqs[q].route = "POST /api/students"

\* Register request r was answered 201.
RegisterCreated(r) ==
    /\ reqs[r] # Idle /\ reqs[r].kind = "register"
    /\ reqs[r].pc = "done" /\ reqs[r].status = Created

\* C26: the enrollment form creates the user account first and the student
\* record second. Every student request was sent after a register request
\* of the form was answered 201 and carries the id of the user that
\* register created, a stored user of role student; a register has at most
\* one student request; every student record the form created comes from
\* such a request and has that user id; and the step that sends a student
\* request is the one that takes up the 201 answer of the register the
\* form is waiting for, so a register that failed is followed by none.
C26_AccountFirstStudentSecond ==
    /\ [](/\ \A q \in EnrollReqIds :
               StudentRequest(q) =>
                  /\ \E r \in EnrollReqIds :
                        /\ r < q /\ RegisterCreated(r)
                        /\ reqs[q].payload.userId = r
                        /\ \E u \in users : u.id = r /\ u.role = "student"
                  /\ \A p \in EnrollReqIds :
                        (StudentRequest(p)
                           /\ reqs[p].payload.userId = reqs[q].payload.userId)
                          => p = q
          /\ \A x \in students \ SchoolStudents :
              /\ x.id \in EnrollReqIds /\ StudentRequest(x.id)
              /\ x.userId = reqs[x.id].payload.userId)
    /\ [][/\ \A q \in EnrollReqIds :
              (reqs[q] = Idle /\ StudentRequest(q)') =>
                 /\ client.pc = "register"
                 /\ RegisterCreated(client.userRes)
                 /\ reqs'[q].payload.userId = client.userRes
          /\ (/\ client.pc = "register"
              /\ reqs[client.userRes].pc = "done"
              /\ ~RegisterCreated(client.userRes)) =>
                 /\ students' = students
                 /\ \A q \in EnrollReqIds :
                       (reqs[q] = Idle) => ~StudentRequest(q)'
                 /\ client'.pc # "student"]_vars

\* C26's case: one submission failed at register (409) and sent no student
\* request, another one registered a user and then created the student
\* record of that user.
C26_Witness ==
    \E f \in EnrollReqIds, r \in EnrollReqIds, q \in EnrollReqIds :
        /\ reqs[f] # Idle /\ reqs[f].kind = "register"
        /\ reqs[f].status = Conflict
        /\ RegisterCreated(r) /\ r < q
        /\ StudentRequest(q) /\ reqs[q].status = Created
        /\ \E x \in students : x.id = q /\ x.userId = r
        /\ \A p \in EnrollReqIds : StudentRequest(p) => p = q

====
